---- MODULE Spec2Model ----
(***************************************************************************)
(* Container-runtime lifecycle manager of funserver (package container):   *)
(* Server (server.go), the WSL2 / LinuxKit / native backends (wsl2 file,   *)
(* utils.go), the bundled-binary cache (utils.go, extract file) and the    *)
(* Manager facade (manager file).                                          *)
(*                                                                         *)
(* The host (file system, processes, WSL distribution, hypervisor VM) is   *)
(* part of the state.  A call of Server.Start / Server.Stop holds the      *)
(* Server mutex from entry to return and is one action; what the host      *)
(* answers during the call (probe results, I/O failures, readiness) is an  *)
(* input of the action.  Manager.Start / Manager.Stop take no lock and are *)
(* split at the points where another goroutine can interleave.             *)
(***************************************************************************)
EXTENDS Integers, Sequences, FiniteSets, TLC

\* ------------------------------------------------------------------ bounds
MaxProcs == 2        \* native engine processes spawned in one behaviour
MaxServers == 2      \* Server objects created by NewServer in one behaviour
MaxClients == 2      \* runtime clients created by NewClient in one behaviour
NumGoroutines == 2   \* goroutines calling into one Manager

Pids == 1..MaxProcs
ServerIds == 1..MaxServers
ClientIds == 1..MaxClients
Goroutines == 1..NumGoroutines

Components == {"containerd", "runc"}

\* ------------------------------------------------------------- addresses
\* A control address is kept as (scheme, name); strings.HasPrefix(a, `\\.\pipe\`)
\* is the test scheme = "pipe".
EmptyAddr == [scheme |-> "", name |-> ""]
DefaultPipe == [scheme |-> "pipe", name |-> "fun-containerd"]
DefaultSock == [scheme |-> "unix", name |-> "~/.fun/containerd/containerd.sock"]
CustomSock == [scheme |-> "unix", name |-> "/custom/containerd.sock"]
WslAddr == [scheme |-> "wsl", name |-> "wsl-fun/run/containerd/containerd.sock"]

HasPipePrefix(a) == a.scheme = "pipe"

GetFunSocketPath(os) == IF os = "windows" THEN DefaultPipe ELSE DefaultSock

DefaultWSL2Config == [Enabled |-> TRUE, Distribution |-> "wsl-fun"]

GetWindowsContainerdSocketPath(config, wsl2Available) ==
    IF config.Enabled /\ wsl2Available THEN WslAddr ELSE DefaultPipe

\* ----------------------------------------------------------------- state
VARIABLES
    env,      \* what never changes: goos, the ServerConfig address given to
              \* NewServer, which bundled sources ship, what is on PATH, RunAs
    cache,    \* BundledBinaryDir: per component "absent" | "exec" | "noexec"
    distro,   \* the WSL2 distribution: "absent" | "stopped" | "running"
    guest,    \* the engine inside the distribution: [installed, running]
    vm,       \* the hyperkit VM (PID file + live process): "down" | "up"
    procs,    \* native engine processes: pid -> "free" | "alive" |
              \* "exited0" | "exitedErr" (exited, not waited for) | "reaped"
    srv,      \* Server objects: id -> [alloc, running, vmRunning, wslRunning,
              \*                        cmdPid, address]
    life,     \* history, per Server: "never" | "started" | "stopped"
    kind,     \* history, per Server: the backend its first Start went for
              \* ("none" before): "vm" | "wsl" | "native"
    xlog,     \* history: the last call of an EnsureBundled...Extracted function
              \* made on its own: [c, err, wrote, found, prev]
    stopWait, \* the select a Server.Stop is blocked in, with the time it has
              \* waited: [active, kind, clock, ctx]
    ret,      \* history: what the last Server call did and returned
    mgr,      \* the Manager: [server, client, clientSocket] (0: nil)
    clients,  \* runtime clients: id -> "free" | "open" | "closed"
    pc,       \* per goroutine: where it is inside Manager.Start / Stop
    loc,      \* per goroutine: the local variables of its Manager call
    mret,     \* history: the last Manager call that returned
    bridge,   \* the socat helper of CreateWSLSocketProxy, which only
              \* NewClient starts: "none" | "alive" | "killed"
    xcall,    \* per caller: where it is inside an EnsureBundled...Extracted
              \* call that is followed step by step: [pc, c, off, err, raced]
    dest,     \* per component: the bytes of the cache destination, as the
              \* calls followed step by step have written them
    vmh,      \* what a query made on its own finds of the hypervisor helper
              \* and of the VM's PID file: [hkCache, hkOnPath, pidFile, probe]
    qlog,     \* history: the last GetXPath / IsLinuxKitVMRunning query made
              \* on its own: [fn, path, inCache, onPath, running]
    wfs,      \* a WaitForSocket call followed step by step: [pc, addr,
              \* timeout, clock, nextTick, path, since, result, probes]
    up        \* a Compose and its Up call followed step by step: [deps,
              \* containers, pending, stack, calls, result, err]

vars ==
    <<env, cache, distro, guest, vm, procs, srv, life, kind, stopWait, xlog, ret, mgr,
      clients, pc, loc, mret, bridge, xcall, dest, vmh, qlog, wfs, up>>
hostVars == <<cache, distro, guest, vm, procs>>
srvVars == <<srv, life, ret, kind>>
mgrVars == <<mgr, clients, pc, loc, mret, bridge>>
raceVars == <<xcall, dest>>
queryVars == <<vmh, qlog>>
auxVars == <<xlog, raceVars, queryVars, wfs, up>>

IsRunningOnMacOS == env.goos = "darwin"
IsRunningOnWindows == env.goos = "windows"

\* The history of the last Server call:
\*   op, s       "Start" | "Stop", and the Server it was called on
\*   err         the error returned ("nil": none)
\*   via         the branch the call ended in: "already" | "vm" | "wsl" | "native"
\*   tried       the backends the call attempted, in order
\*   launched    the backends the call launched
\*   wslErr      how the WSL2 attempt of a Start ended ("n/a": none made)
\*   reachable   the spawned engine made its address reachable within 30s
\*   wait        what WaitForSocket returned ("n/a": not called)
\*   sent        the signals and terminations the call issued
\*   sel         how the select of a native Stop ended ("n/a": not reached);
\*               of a Stop of the hypervisor VM, how StopLinuxKitVM ended
\*               ("down": it found no VM running)
\*   steps       of a Stop of the hypervisor VM: the signals it attempted and
\*               the waits it made, in order; of a Start that tried WSL2: the
\*               provisioning and start steps it ran, in order, followed by
\*               the commands of the EnsureContainerdInWSL of line 146
\*   before, procBefore   what a Stop found (see BaseRet)
\*   elapsed, ctxDone, procAtSel   of a Stop whose wait is followed step by
\*               step: the seconds it waited in its select, whether the
\*               caller's context was done, and the state of the process,
\*               when the select ended
NoRet ==
    [op |-> "none", s |-> 0, err |-> "nil", via |-> "none", tried |-> <<>>,
     launched |-> {}, wslErr |-> "n/a", reachable |-> FALSE, wait |-> "n/a",
     sent |-> {}, sel |-> "n/a", before |-> "never", procBefore |-> "none",
     elapsed |-> 0, ctxDone |-> FALSE, procAtSel |-> "none", steps |-> <<>>]

\* NewServer: an empty address becomes GetFunSocketPath(); nothing is running.
NewServer(configAddress) ==
    [alloc |-> TRUE, running |-> FALSE, vmRunning |-> FALSE, wslRunning |-> FALSE,
     cmdPid |-> 0,
     address |-> IF configAddress = EmptyAddr THEN GetFunSocketPath(env.goos)
                 ELSE configAddress]

NoServer ==
    [alloc |-> FALSE, running |-> FALSE, vmRunning |-> FALSE, wslRunning |-> FALSE,
     cmdPid |-> 0, address |-> EmptyAddr]

\* The address a Server of this behaviour is constructed with.
ConfiguredAddress ==
    IF env.cfgAddr = EmptyAddr THEN GetFunSocketPath(env.goos) ELSE env.cfgAddr

\* ------------------------------------------------- bundled-binary cache
\* A faulty variant of GetXPath that looks on the PATH first:
\* C22_PathPrefersCache tells the two apart.
GetXPath_PathFirst(c, ch) ==
    IF env.onPath[c] THEN "path"
    ELSE IF ch[c] # "absent" THEN "cache"
    ELSE ""

\* GetContainerdPath / GetRuncPath: the cache if the file exists there, else
\* exec.LookPath, else "".
GetXPath(c, ch) ==
    IF ch[c] # "absent" THEN "cache"
    ELSE IF env.onPath[c] THEN "path"
    ELSE ""

\* GetHyperKitPath: the same for the hypervisor helper.
GetHyperKitPath(h) ==
    IF h.hkCache THEN "cache"
    ELSE IF h.hkOnPath THEN "path"
    ELSE ""

GetContainerdPath(ch) == GetXPath("containerd", ch)
GetRuncPath(ch) == GetXPath("runc", ch)
IsContainerdInstalled(ch) == GetContainerdPath(ch) # ""
IsRuncInstalled(ch) == GetRuncPath(ch) # ""

\* Mode bits of a file created by os.OpenFile(..., O_CREATE|O_WRONLY, 0755):
\* Go reports no executable bit for any file on Windows.
CreatedMode == IF env.goos = "windows" THEN "noexec" ELSE "exec"

\* extractBundledContainerd / EnsureBundledRuncExtracted.  io is "none", or
\* "open" (a file could not be opened) or "copy" (io.Copy failed after the
\* destination was created).  O_CREATE without O_TRUNC keeps an existing
\* file's mode.
\* wrote: io.Copy wrote to the destination.
ExtractBundled(c, ch, io) ==
    IF ch[c] = "exec" THEN [cache |-> ch, err |-> FALSE, wrote |-> FALSE]
    ELSE IF ~env.bundled[c] THEN [cache |-> ch, err |-> TRUE, wrote |-> FALSE]
    ELSE IF io = "open" THEN [cache |-> ch, err |-> TRUE, wrote |-> FALSE]
    ELSE [cache |-> [ch EXCEPT ![c] = IF ch[c] = "absent" THEN CreatedMode ELSE ch[c]],
          err |-> io = "copy", wrote |-> TRUE]

XFail == {"none", "openContainerd", "copyContainerd", "openRunc", "copyRunc"}

IoOf(c, xf) ==
    IF c = "containerd" /\ xf = "openContainerd" THEN "open"
    ELSE IF c = "containerd" /\ xf = "copyContainerd" THEN "copy"
    ELSE IF c = "runc" /\ xf = "openRunc" THEN "open"
    ELSE IF c = "runc" /\ xf = "copyRunc" THEN "copy"
    ELSE "none"

\* EnsureAllBundledComponentsExtracted: containerd, then runc, then the CNI
\* plugins (cni = "bundled": extracted or already there; "none": no bundled
\* plugin directory, which is an error).  The first error ends it.
EnsureAllBundledComponentsExtracted(ch, xf, cni) ==
    LET a == ExtractBundled("containerd", ch, IoOf("containerd", xf))
        b == ExtractBundled("runc", a.cache, IoOf("runc", xf))
    IN IF a.err THEN a
       ELSE IF b.err THEN b
       ELSE [cache |-> b.cache, err |-> cni = "none", wrote |-> a.wrote \/ b.wrote]

\* --------------------------------------------------------- WSL2 backend
\* IsWSL2DistributionAvailable: the distribution is in `wsl --list`.
IsWSL2DistributionAvailable(d) == d # "absent"

\* IsWSL2Available runs `wsl --status` each time it is called; every call is
\* a fresh probe of the host.  A Start that meets a failing probe or step
\* meets it at one place, wf:
\*   "probe"     IsWSL2Available() is false in StartWSL2Environment or in
\*               InstallWSL2Components
\*   "download"  the directory or the rootfs download fails
\*   "import"    `wsl --import` fails: no distribution is created
\*   "configure" "install"        the provisioning steps after the import
\*   "launch" "mount" "engine"    the start steps
WslFail ==
    {"none", "probe", "download", "import", "configure", "install", "launch", "mount", "engine"}

EnsureFail == {"none", "apt", "config"}

\* EnsureContainerdInWSL: `which containerd` in the guest; when that finds
\* nothing, apt-get install, then write /etc/containerd/config.toml.  Running
\* a command in the distribution boots it.  steps: the commands it ran.
EnsureContainerdInWSL(d, g, ef) ==
    LET d1 == IF d = "absent" THEN d ELSE "running"
    IN IF d # "absent" /\ g.installed
       THEN [err |-> "nil", distro |-> d1, guest |-> g, steps |-> <<"which">>]
       ELSE IF d = "absent" \/ ef = "apt"
       THEN [err |-> "apt", distro |-> d1, guest |-> g, steps |-> <<"which", "apt">>]
       ELSE IF ef = "config"
            THEN [err |-> "config", distro |-> d1, guest |-> [g EXCEPT !.installed = TRUE],
                  steps |-> <<"which", "apt", "config">>]
       ELSE [err |-> "nil", distro |-> d1, guest |-> [g EXCEPT !.installed = TRUE],
             steps |-> <<"which", "apt", "config">>]

\* A faulty variant of InstallWSL2Components without the check of line 165:
\* it provisions also when the distribution exists.
\* C32_ProvisionOnlyWhenAbsentAndAvailable tells the two apart.
InstallWSL2Components_NoCheck(d, g, wf) ==
    IF wf = "probe" THEN [err |-> "probe", distro |-> d, guest |-> g, steps |-> <<>>]
    ELSE IF wf = "download"
    THEN [err |-> wf, distro |-> d, guest |-> g, steps |-> <<"download">>]
    ELSE IF wf = "import"
    THEN [err |-> wf, distro |-> d, guest |-> g, steps |-> <<"download", "import">>]
    ELSE [err |-> IF wf = "configure" THEN wf ELSE "nil",
          distro |-> IF d = "absent" THEN "stopped" ELSE d, guest |-> g,
          steps |-> <<"download", "import", "configure">>]

\* InstallWSL2Components: probe, then (only when the distribution is absent)
\* directory and rootfs download, `wsl --import`, configureWSL2Distribution,
\* EnsureContainerdInWSL.  steps: the provisioning steps it ran, in order
\* ("install" stands for the call of EnsureContainerdInWSL at line 200).
InstallWSL2Components(d, g, wf) ==
    IF wf = "probe" THEN [err |-> "probe", distro |-> d, guest |-> g, steps |-> <<>>]
    ELSE IF IsWSL2DistributionAvailable(d)
    THEN [err |-> "nil", distro |-> d, guest |-> g, steps |-> <<>>]
    ELSE IF wf = "download"
    THEN [err |-> wf, distro |-> d, guest |-> g, steps |-> <<"download">>]
    ELSE IF wf = "import"
    THEN [err |-> wf, distro |-> d, guest |-> g, steps |-> <<"download", "import">>]
    ELSE IF wf = "configure"
    THEN [err |-> wf, distro |-> "stopped", guest |-> g,
          steps |-> <<"download", "import", "configure">>]
    ELSE LET e == EnsureContainerdInWSL("stopped", g, IF wf = "install" THEN "apt" ELSE "none")
         IN [err |-> IF e.err = "nil" THEN "nil" ELSE "install",
             distro |-> e.distro, guest |-> e.guest,
             steps |-> <<"download", "import", "configure", "install">>]

\* A faulty variant of StartWSL2Environment that starts the engine in the
\* guest before the bind mount, and so also when the mount fails:
\* C31_WSLStartOrder tells the two apart.
StartWSL2Environment_EngineFirst(d, g, wf) ==
    IF wf = "probe"
    THEN [err |-> "probe", distro |-> d, guest |-> g, launched |-> FALSE, steps |-> <<>>]
    ELSE
      LET inst == IF ~IsWSL2DistributionAvailable(d) THEN InstallWSL2Components(d, g, wf)
                  ELSE [err |-> "nil", distro |-> d, guest |-> g, steps |-> <<>>]
      IN IF inst.err # "nil"
         THEN [err |-> inst.err, distro |-> inst.distro, guest |-> inst.guest,
               launched |-> FALSE, steps |-> inst.steps]
         ELSE IF wf = "launch"
         THEN [err |-> "launch", distro |-> inst.distro, guest |-> inst.guest,
               launched |-> FALSE, steps |-> inst.steps \o <<"launch">>]
         ELSE [err |-> IF wf \in {"mount", "engine"} THEN wf ELSE "nil",
               distro |-> "running",
               guest |-> [inst.guest EXCEPT !.running = inst.guest.installed \/ @],
               launched |-> TRUE,
               steps |-> inst.steps \o <<"launch", "engine", "mount">>]

\* StartWSL2Environment: probe; provision if the distribution is absent;
\* launch the distribution; bind-mount; start containerd in the guest (the
\* spawn of wsl.exe succeeds whether or not containerd is installed there).
\* launched: the `wsl.exe --distribution` launch of line 255 succeeded.
\* steps: the provisioning and start steps it ran, in order.
StartWSL2Environment(d, g, wf) ==
    IF wf = "probe"
    THEN [err |-> "probe", distro |-> d, guest |-> g, launched |-> FALSE, steps |-> <<>>]
    ELSE
      LET inst == IF ~IsWSL2DistributionAvailable(d) THEN InstallWSL2Components(d, g, wf)
                  ELSE [err |-> "nil", distro |-> d, guest |-> g, steps |-> <<>>]
      IN IF inst.err # "nil"
         THEN [err |-> inst.err, distro |-> inst.distro, guest |-> inst.guest,
               launched |-> FALSE, steps |-> inst.steps]
         ELSE IF wf = "launch"
         THEN [err |-> "launch", distro |-> inst.distro, guest |-> inst.guest,
               launched |-> FALSE, steps |-> inst.steps \o <<"launch">>]
         ELSE IF wf = "mount"
         THEN [err |-> wf, distro |-> "running", guest |-> inst.guest, launched |-> TRUE,
               steps |-> inst.steps \o <<"launch", "mount">>]
         ELSE IF wf = "engine"
         THEN [err |-> wf, distro |-> "running", guest |-> inst.guest, launched |-> TRUE,
               steps |-> inst.steps \o <<"launch", "mount", "engine">>]
         ELSE [err |-> "nil", distro |-> "running",
               guest |-> [inst.guest EXCEPT !.running = inst.guest.installed \/ @],
               launched |-> TRUE,
               steps |-> inst.steps \o <<"launch", "mount", "engine">>]

\* StopWSL2Environment: nothing to do when the distribution does not exist;
\* else `wsl --terminate`, which ends every process of the guest.
StopWSL2Environment(d, g, fail) ==
    IF ~IsWSL2DistributionAvailable(d) THEN [err |-> "nil", distro |-> d, guest |-> g, sent |-> {}]
    ELSE IF fail THEN [err |-> "wslStop", distro |-> d, guest |-> g, sent |-> {}]
    ELSE [err |-> "nil", distro |-> "stopped", guest |-> [g EXCEPT !.running = FALSE],
          sent |-> {"terminateWSL"}]

\* ------------------------------------------------- hypervisor VM backend
\* IsLinuxKitVMRunning: on macOS, with a hypervisor helper resolved, a PID
\* file that holds a number, and a zero-signal probe of that PID that
\* succeeds.
IsLinuxKitVMRunning(goos, h) ==
    IF goos # "darwin" THEN FALSE
    ELSE IF GetHyperKitPath(h) = "" THEN FALSE
    ELSE IF h.pidFile # "pid" THEN FALSE
    ELSE h.probe

VMFail == {"none", "components", "hyperkit", "mkdir", "spawn"}

\* StartLinuxKitVM: no-op when the VM already runs; else components,
\* hyperkit path, state directory, spawn.
StartLinuxKitVM(v, vf) ==
    IF v = "up" THEN [err |-> "nil", vm |-> v, launched |-> FALSE]
    ELSE IF vf # "none" THEN [err |-> vf, vm |-> v, launched |-> FALSE]
    ELSE [err |-> "nil", vm |-> "up", launched |-> TRUE]

VMStop == {"exited", "waitErr", "timeoutKill", "timeoutKillErr", "killErr"}

\* StopLinuxKitVM: no-op when the VM does not run; else Signal(os.Interrupt),
\* and only when that cannot be delivered Signal(SIGTERM), and only when that
\* cannot be delivered either Kill(); then one wait of up to 10s for the
\* exit, then Kill().
\*   "exited"         the process exited within 10s, Wait returned nil
\*   "waitErr"        process.Wait() returned an error
\*   "timeoutKill"    10s passed, Kill succeeded
\*   "timeoutKillErr" 10s passed, Kill failed: the process had just exited
\*   "killErr"        none of the three signals could be delivered: the
\*                    process exited after the liveness check
\* sent: the signals delivered; steps: the signals attempted and the waits
\* made, in order.
StopLinuxKitVM(v, out) ==
    IF v = "down" THEN [err |-> "nil", vm |-> v, sent |-> {}, steps |-> <<>>]
    ELSE IF out = "killErr"
         THEN [err |-> "killErr", vm |-> "down", sent |-> {},
               steps |-> <<"interrupt", "terminate", "kill">>]
    ELSE IF out = "waitErr"
         THEN [err |-> "waitErr", vm |-> v, sent |-> {"interruptVM"},
               steps |-> <<"interrupt", "wait">>]
    ELSE IF out = "timeoutKill"
         THEN [err |-> "nil", vm |-> "down", sent |-> {"interruptVM", "killVM"},
               steps |-> <<"interrupt", "wait", "kill">>]
    ELSE IF out = "timeoutKillErr"
         THEN [err |-> "killErr", vm |-> "down", sent |-> {"interruptVM"},
               steps |-> <<"interrupt", "wait", "kill">>]
    ELSE [err |-> "nil", vm |-> "down", sent |-> {"interruptVM"},
          steps |-> <<"interrupt", "wait">>]

\* --------------------------------------------------------- native backend
\* "mkdir": one of the os.MkdirAll calls of lines 198-241 fails.
NativeFail == {"none", "mkdir", "logOpen", "spawn"}

\* What the host answers during the native part of one Start:
\*   xf     an I/O failure while extracting, cni  the bundled CNI plugins,
\*   nf     the step of lines 198-264 that fails,
\*   ready  os.Stat(address) succeeds at some poll tick inside the budget.
NativeInputs ==
    {in \in [xf : XFail, cni : {"bundled", "none"}, nf : NativeFail, ready : BOOLEAN] :
        in.nf # "none" => ~in.ready}

\* WaitForSocket(address, 30s).  A named pipe is not probed: the function waits
\* for its own deadline context and then finds ctx.Err() == DeadlineExceeded.
WaitForSocket(address, ready) ==
    IF HasPipePrefix(address) THEN "timeout"
    ELSE IF ready THEN "nil"
    ELSE "timeout"

\* A process that has ended and that no Server holds in s.cmd any more plays
\* no further part: its slot is free again.
Forget(pr, sv) ==
    [p \in Pids |->
        IF pr[p] # "alive" /\ (\A s \in ServerIds : sv[s].cmdPid # p) THEN "free"
        ELSE pr[p]]

FreePids(pr) == {p \in Pids : pr[p] = "free"}
FreshPid(pr) == CHOOSE p \in FreePids(pr) : \A q \in FreePids(pr) : p <= q

\* A faulty variant of ReadinessFailed that returns the error without killing
\* the process: C8_ReadinessTimeout tells the two apart.
ReadinessFailed_NoKill(sv, ch, pr, p) ==
    [srv |-> [sv EXCEPT !.cmdPid = p], cache |-> ch,
     procs |-> [pr EXCEPT ![p] = "alive"],
     err |-> "readiness", launched |-> TRUE, killed |-> FALSE, wait |-> "timeout"]

\* The readiness wait failed: Process.Kill(), close the log, return the error.
\* The killed process is not waited for.
ReadinessFailed(sv, ch, pr, p) ==
    [srv |-> [sv EXCEPT !.cmdPid = p], cache |-> ch,
     procs |-> [pr EXCEPT ![p] = "exitedErr"],
     err |-> "readiness", launched |-> TRUE, killed |-> TRUE, wait |-> "timeout"]

\* The readiness wait succeeded: s.running = true.
ReadinessOk(sv, ch, pr, p) ==
    [srv |-> [sv EXCEPT !.cmdPid = p, !.running = TRUE], cache |-> ch,
     procs |-> [pr EXCEPT ![p] = "alive"],
     err |-> "nil", launched |-> TRUE, killed |-> FALSE, wait |-> "nil"]

\* A faulty variant of NativeAbort that marks the Server running although the
\* step failed: C6_FatalFailure tells the two apart.
NativeAbort_Running(sv, ch, pr, err) ==
    [srv |-> [sv EXCEPT !.running = TRUE], cache |-> ch, procs |-> pr, err |-> err,
     launched |-> FALSE, killed |-> FALSE, wait |-> "n/a"]

\* A step before the spawn failed: nothing was launched.
NativeAbort(sv, ch, pr, err) ==
    [srv |-> sv, cache |-> ch, procs |-> pr, err |-> err, launched |-> FALSE,
     killed |-> FALSE, wait |-> "n/a"]

\* A faulty variant of NativeStart that never asks for the low-level runtime:
\* C23_NativeStartNeedsBinaries tells the two apart.
NativeStart_NoRuncCheck(sv, ch, pr, in) ==
    LET x == EnsureAllBundledComponentsExtracted(ch, in.xf, in.cni)
        ch2 == x.cache
        cmdSet == [sv EXCEPT !.cmdPid = 0]
        p == FreshPid(pr)
    IN IF x.err /\ ~IsContainerdInstalled(ch2) THEN NativeAbort(sv, ch2, pr, "noContainerd")
       ELSE IF GetContainerdPath(ch2) = "" THEN NativeAbort(sv, ch2, pr, "noContainerd")
       ELSE IF in.nf = "mkdir" THEN NativeAbort(sv, ch2, pr, in.nf)
       ELSE IF in.nf \in {"logOpen", "spawn"} THEN NativeAbort(cmdSet, ch2, pr, in.nf)
       ELSE IF WaitForSocket(sv.address, in.ready) # "nil"
            THEN ReadinessFailed(sv, ch2, pr, p)
       ELSE ReadinessOk(sv, ch2, pr, p)

\* Server.Start, lines 166-277: extract, resolve containerd and runc, make
\* the directories, build the command (s.cmd is overwritten at line 248), open
\* the log, spawn, wait for the socket.
NativeStart(sv, ch, pr, in) ==
    LET x == EnsureAllBundledComponentsExtracted(ch, in.xf, in.cni)
        ch2 == x.cache
        cmdSet == [sv EXCEPT !.cmdPid = 0]
        p == FreshPid(pr)
    IN IF x.err /\ ~IsContainerdInstalled(ch2) THEN NativeAbort(sv, ch2, pr, "noContainerd")
       ELSE IF x.err /\ ~IsRuncInstalled(ch2) THEN NativeAbort(sv, ch2, pr, "noRunc")
       ELSE IF GetContainerdPath(ch2) = "" THEN NativeAbort(sv, ch2, pr, "noContainerd")
       ELSE IF GetRuncPath(ch2) = "" THEN NativeAbort(sv, ch2, pr, "noRunc")
       ELSE IF in.nf = "mkdir" THEN NativeAbort(sv, ch2, pr, in.nf)
       ELSE IF in.nf \in {"logOpen", "spawn"} THEN NativeAbort(cmdSet, ch2, pr, in.nf)
       ELSE IF WaitForSocket(sv.address, in.ready) # "nil"
            THEN ReadinessFailed(sv, ch2, pr, p)
       ELSE ReadinessOk(sv, ch2, pr, p)

\* Process.Signal(os.Interrupt) fails on Windows (not implemented there) and
\* on a process that Wait has already reaped (os.ErrProcessDone).
SignalFails(st) == env.goos = "windows" \/ st = "reaped"

\* How the select of Server.Stop (lines 319-338) can end, by the state of the
\* process at the time of the interrupt:
\*   "done0" / "doneErr"  cmd.Wait() returned nil / an error
\*   "timeout"            30s passed first; Kill succeeded
\*   "timeoutKillErr"     30s passed first; Kill failed
\*   "ctx"                the caller's context was done first; Kill succeeded
\*   "ctxKillErr"         the caller's context was done first; Kill failed
StopOutcomes ==
    {"done0", "doneErr", "timeout", "timeoutKillErr", "ctx", "ctxKillErr"}

StopOutcomesOf(st) ==
    IF st = "alive" THEN {"done0", "doneErr", "timeout", "timeoutKillErr", "ctx"}
    ELSE IF st = "exited0" THEN {"done0", "ctx", "ctxKillErr"}
    ELSE IF st = "exitedErr" THEN {"doneErr", "ctx", "ctxKillErr"}
    ELSE {"doneErr"}

\* The `done` case: s.running = false, then the error of cmd.Wait(), if any.
StopDone(sv, pr, out) ==
    [srv |-> [sv EXCEPT !.running = FALSE],
     procs |-> [pr EXCEPT ![sv.cmdPid] = "reaped"],
     err |-> IF out = "done0" THEN "nil" ELSE "exitErr",
     sent |-> {"interrupt"}, sel |-> out]

\* A faulty variant of StopKill that reports the timeout whichever case
\* fired: C12_CancelKillsAtOnce tells the two apart.
StopKill_TimeoutOnly(sv, pr, out) ==
    [srv |-> sv,
     procs |-> [pr EXCEPT ![sv.cmdPid] = "reaped"],
     err |-> IF out \in {"timeout", "ctx"} THEN "killedTimeout" ELSE "killFail",
     sent |-> {"interrupt", "kill"}, sel |-> out]

\* The timeout and context cases: Process.Kill(), then an error is returned.
\* s.running is not assigned on these paths.
StopKill(sv, pr, out) ==
    [srv |-> sv,
     procs |-> [pr EXCEPT ![sv.cmdPid] = "reaped"],
     err |-> IF out = "timeout" THEN "killedTimeout"
             ELSE IF out = "ctx" THEN "ctxCancel"
             ELSE "killFail",
     sent |-> {"interrupt", "kill"}, sel |-> out]

\* Server.Stop, lines 304-338: the native engine.
NativeStop(sv, pr, out) ==
    IF ~sv.running \/ sv.cmdPid = 0
    THEN [srv |-> sv, procs |-> pr, err |-> "nil", sent |-> {}, sel |-> "n/a"]
    ELSE IF SignalFails(pr[sv.cmdPid])
    THEN [srv |-> sv, procs |-> pr, err |-> "signal", sent |-> {}, sel |-> "n/a"]
    ELSE IF out \in {"done0", "doneErr"} THEN StopDone(sv, pr, out)
    ELSE StopKill(sv, pr, out)

\* ------------------------------------------------------ history variables
ProcStateOf(sv) == IF sv.cmdPid = 0 THEN "none" ELSE procs[sv.cmdPid]

\* Of a Stop, the history also keeps what it found: the Server's backend
\* history and the state of its engine process.
BaseRet(op, s) ==
    IF op = "Stop"
    THEN [NoRet EXCEPT !.op = op, !.s = s, !.before = life[s],
                       !.procBefore = ProcStateOf(srv[s])]
    ELSE [NoRet EXCEPT !.op = op, !.s = s]

\* A Server's backend counts as started once a Start on it has launched
\* something or has succeeded other than by finding s.running set.
LifeAfterStart(l, r) ==
    IF r.launched # {} \/ (r.err = "nil" /\ r.via # "already") THEN "started" ELSE l

BackendAliveOf(sv, pr, d, v) ==
    \/ sv.cmdPid # 0 /\ pr[sv.cmdPid] = "alive"
    \/ sv.wslRunning /\ d = "running"
    \/ sv.vmRunning /\ v = "up"

\* ... and as stopped once a Stop on it has gone through its shutdown and
\* nothing the Server started is alive.
LifeAfterStop(l, r, alive) ==
    IF l = "started" /\ ~alive
       /\ r.err \in {"nil", "exitErr", "killedTimeout", "ctxCancel", "killFail", "killErr"}
    THEN "stopped" ELSE l

\* The backend a Server's first Start went for: the first one it tried.
KindAfterStart(k, r) ==
    IF k = "none" /\ r.tried # <<>> THEN r.tried[1] ELSE k

\* No extraction function has been called on its own.
NoXLog ==
    [c |-> "none", err |-> FALSE, wrote |-> FALSE, found |-> "absent",
     prev |-> [c |-> "none", err |-> FALSE]]

\* No Stop is blocked in its select.
NoWait ==
    [active |-> FALSE, kind |-> "none", clock |-> 0, ctx |-> "live", found |-> "none"]

\* ----------------------------------------- bundled source, byte by byte
NumChunks == 3       \* blocks io.Copy moves from the bundled source
NumCallers == 2      \* goroutines inside an extraction call at one time

Callers == 1..NumCallers

\* The bundled source file, as the blocks io.Copy reads from it.
BundledContent == [k \in 1..NumChunks |-> k]

\* No extraction call is in progress for this caller.
NoCall == [pc |-> "idle", c |-> "none", off |-> 0, err |-> FALSE, raced |-> FALSE]

\* No hypervisor helper and no PID file.
\*   hkCache   the helper is in the cache: os.Stat(GetBundledHyperKitPath())
\*   hkOnPath  exec.LookPath("hyperkit") finds it
\*   pidFile   <StateDir>/hyperkit.pid: "absent" | "garbage" (no parsable
\*             PID in it) | "pid"
\*   probe     Signal(0) to the PID of the file succeeds
NoVMHost == [hkCache |-> FALSE, hkOnPath |-> FALSE, pidFile |-> "absent", probe |-> FALSE]

\* No query has been made on its own.
NoQuery ==
    [fn |-> "none", path |-> "", inCache |-> FALSE, onPath |-> FALSE, running |-> FALSE]

\* No WaitForSocket call is followed.
\*   pc        "idle" | "waiting" | "returned"
\*   addr      the socketPath argument
\*   timeout   the timeout argument, clock  the time since the call (ms)
\*   nextTick  when the ticker fires next
\*   path      os.Stat(socketPath) would succeed now
\*   since     when the path appeared (0: it was there at the call)
\*   result    "none" | "nil" | "timeout"
\*   probes    the os.Stat calls made
NoWaitCall ==
    [pc |-> "idle", addr |-> EmptyAddr, timeout |-> 0, clock |-> 0, nextTick |-> 0,
     path |-> FALSE, since |-> 0, result |-> "none", probes |-> 0]

\* Nothing is followed step by step: no extraction call and no query has
\* been made, and the cache holds no file.
\* The services a compose file defines, a name that none of them has, and
\* the depends_on lists a service can have.
Services == {"db", "web"}

Ghost == "ghost"

MaxDeps == 2

DepLists == UNION {[1..n -> Services \cup {Ghost}] : n \in 0..MaxDeps}

\* A Compose whose services depend on nothing and have no container, and on
\* which Up has not been called.
\*   deps        per service: its DependsOn
\*   containers  per service: its container in the engine, "none" |
\*               "created" (no task) | "running" (a task was started)
\*   pending     the services the range loop of Up has yet to visit
\*   stack       the startService calls in progress, innermost last:
\*               [svc, i], i the index into DependsOn of the dependency
\*               the call handles next
\*   calls       per service: the StartContainer calls made on its container
\*   result      "idle" | "running" | "ok" | "error" | "overflow"
\*   err         the error Up returned ("nil": none)
NoUp ==
    [deps |-> [s \in Services |-> <<>>], containers |-> [s \in Services |-> "none"],
     pending |-> {}, stack |-> <<>>, calls |-> [s \in Services |-> 0],
     result |-> "idle", err |-> "nil"]

AuxIdle ==
    /\ xlog = NoXLog
    /\ xcall = [i \in Callers |-> NoCall]
    /\ dest = [c \in Components |-> <<>>]
    /\ vmh = NoVMHost
    /\ qlog = NoQuery
    /\ wfs = NoWaitCall
    /\ up = NoUp

\* ------------------------------------------------------------ Server.Start
StartReturn(s, sv, r) ==
    /\ srv' = [srv EXCEPT ![s] = sv]
    /\ ret' = r
    /\ life' = [life EXCEPT ![s] = LifeAfterStart(life[s], r)]
    /\ kind' = [kind EXCEPT ![s] = KindAfterStart(kind[s], r)]

\* lines 106-108
StartAlreadyRunning(s) ==
    /\ srv[s].running
    /\ StartReturn(s, srv[s], [BaseRet("Start", s) EXCEPT !.via = "already"])
    /\ UNCHANGED hostVars

\* lines 111-128: macOS, the LinuxKit VM
StartMacOS(s) ==
    /\ ~srv[s].running
    /\ IsRunningOnMacOS
    /\ \E vf \in VMFail :
         LET r == StartLinuxKitVM(vm, vf)
             b == [BaseRet("Start", s) EXCEPT !.via = "vm", !.tried = <<"vm">>]
         IN /\ vm' = r.vm
            /\ IF r.err # "nil"
               THEN StartReturn(s, srv[s], [b EXCEPT !.err = "vmStart"])
               ELSE StartReturn(s, [srv[s] EXCEPT !.vmRunning = TRUE, !.running = TRUE],
                                [b EXCEPT !.launched = IF r.launched THEN {"vm"} ELSE {}])
    /\ UNCHANGED <<cache, distro, guest, procs>>

\* lines 131-156: Windows, WSL2 enabled, the probe of line 133 answers yes and
\* StartWSL2Environment succeeds.  probe4 is the probe made inside
\* GetWindowsContainerdSocketPath at line 151.
StartWSL2(s) ==
    /\ ~srv[s].running
    /\ ~IsRunningOnMacOS /\ IsRunningOnWindows
    /\ DefaultWSL2Config.Enabled
    /\ \E wf \in WslFail, ef \in EnsureFail, probe4 \in BOOLEAN :
         LET w == StartWSL2Environment(distro, guest, wf)
             e == EnsureContainerdInWSL(w.distro, w.guest, ef)
             b == [BaseRet("Start", s) EXCEPT !.via = "wsl", !.tried = <<"wsl">>,
                                              !.launched = {"wsl"}, !.wslErr = "nil",
                                              !.steps = w.steps \o e.steps]
         IN /\ w.err = "nil"
            /\ distro' = e.distro
            /\ guest' = e.guest
            /\ IF e.err # "nil"
               THEN StartReturn(s, [srv[s] EXCEPT !.wslRunning = TRUE],
                                [b EXCEPT !.err = "ensureWSL", !.wslErr = "ensure"])
               ELSE StartReturn(s,
                        [srv[s] EXCEPT !.wslRunning = TRUE, !.running = TRUE,
                            !.address = GetWindowsContainerdSocketPath(DefaultWSL2Config, probe4)],
                        b)
    /\ UNCHANGED <<cache, vm, procs>>

\* A faulty variant of NativePreludes in which a Start on Windows that finds
\* WSL2 unavailable counts as having tried it: C19_SelectionIsAFunction tells
\* the two apart.
NativePreludes_TriesWSL ==
    IF ~IsRunningOnWindows
    THEN {[err |-> "n/a", distro |-> distro, guest |-> guest, launched |-> FALSE,
           tried |-> FALSE, steps |-> <<>>]}
    ELSE {[err |-> "notAvailable", distro |-> distro, guest |-> guest, launched |-> FALSE,
           tried |-> TRUE, steps |-> <<>>]}

\* What precedes the native part of a Start: nothing off Windows; on Windows
\* either the probe of line 133 answers no (lines 157-160), or
\* StartWSL2Environment fails and the error is logged (lines 137-140).
NativePreludes ==
    IF ~IsRunningOnWindows
    THEN {[err |-> "n/a", distro |-> distro, guest |-> guest, launched |-> FALSE,
           tried |-> FALSE, steps |-> <<>>]}
    ELSE IF ~DefaultWSL2Config.Enabled
    THEN {[err |-> "disabled", distro |-> distro, guest |-> guest, launched |-> FALSE,
           tried |-> FALSE, steps |-> <<>>]}
    ELSE {[err |-> "notAvailable", distro |-> distro, guest |-> guest, launched |-> FALSE,
           tried |-> FALSE, steps |-> <<>>]}
         \cup {[err |-> w.err, distro |-> w.distro, guest |-> w.guest,
                launched |-> w.launched, tried |-> TRUE, steps |-> w.steps] :
                 w \in {x \in {StartWSL2Environment(distro, guest, wf) : wf \in WslFail} :
                          x.err # "nil"}}

\* lines 131-277 ending in the native engine
StartNative(s) ==
    /\ ~srv[s].running
    /\ ~IsRunningOnMacOS
    /\ FreePids(procs) # {}
    /\ \E pre \in NativePreludes,
          n \in {[r |-> NativeStart(srv[s], cache, procs, in),
                  reachable |-> in.ready] : in \in NativeInputs} :
            /\ cache' = n.r.cache
            /\ procs' = Forget(n.r.procs, [srv EXCEPT ![s] = n.r.srv])
            /\ distro' = pre.distro
            /\ guest' = pre.guest
            /\ StartReturn(s, n.r.srv,
                  [BaseRet("Start", s) EXCEPT
                      !.via = "native", !.err = n.r.err, !.wslErr = pre.err,
                      !.tried = (IF pre.tried THEN <<"wsl">> ELSE <<>>) \o <<"native">>,
                      !.launched = (IF pre.launched THEN {"wsl"} ELSE {})
                                   \cup (IF n.r.launched THEN {"native"} ELSE {}),
                      !.reachable = n.r.launched /\ n.reachable,
                      !.wait = n.r.wait,
                      !.steps = pre.steps,
                      !.sent = IF n.r.killed THEN {"kill"} ELSE {}])
    /\ UNCHANGED vm

ServerStart(s) ==
    /\ srv[s].alloc
    /\ \/ StartAlreadyRunning(s)
       \/ StartMacOS(s)
       \/ StartWSL2(s)
       \/ StartNative(s)

\* ------------------------------------------------------------- Server.Stop
StopReturn(s, sv, r, pr, d, v) ==
    /\ srv' = [srv EXCEPT ![s] = sv]
    /\ ret' = r
    /\ life' = [life EXCEPT ![s] = LifeAfterStop(life[s], r, BackendAliveOf(sv, pr, d, v))]
    /\ kind' = kind

\* lines 285-292, with StopLinuxKitVM ending in one of `outs`
StopMacOSWith(s, outs) ==
    /\ IsRunningOnMacOS /\ srv[s].vmRunning
    /\ \E out \in outs :
         LET r == StopLinuxKitVM(vm, out)
             b == [BaseRet("Stop", s) EXCEPT
                      !.via = "vm", !.sent = r.sent, !.steps = r.steps,
                      !.sel = IF vm = "down" THEN "down" ELSE out]
         IN /\ vm' = r.vm
            /\ IF r.err # "nil"
               THEN StopReturn(s, srv[s], [b EXCEPT !.err = "vmStop"], procs, distro, r.vm)
               ELSE StopReturn(s, [srv[s] EXCEPT !.vmRunning = FALSE, !.running = FALSE],
                               b, procs, distro, r.vm)
    /\ UNCHANGED <<cache, distro, guest, procs>>

StopMacOS(s) == StopMacOSWith(s, VMStop)

\* lines 295-302
StopWSL2(s) ==
    /\ ~(IsRunningOnMacOS /\ srv[s].vmRunning)
    /\ IsRunningOnWindows /\ srv[s].wslRunning
    /\ \E fail \in BOOLEAN :
         LET r == StopWSL2Environment(distro, guest, fail)
             b == [BaseRet("Stop", s) EXCEPT !.via = "wsl", !.sent = r.sent]
         IN /\ distro' = r.distro
            /\ guest' = r.guest
            /\ IF r.err # "nil"
               THEN StopReturn(s, srv[s], [b EXCEPT !.err = "wslStop"], procs, r.distro, vm)
               ELSE StopReturn(s, [srv[s] EXCEPT !.wslRunning = FALSE, !.running = FALSE],
                               b, procs, r.distro, vm)
    /\ UNCHANGED <<cache, vm, procs>>

\* lines 304-338
StopNative(s) ==
    /\ ~(IsRunningOnMacOS /\ srv[s].vmRunning)
    /\ ~(IsRunningOnWindows /\ srv[s].wslRunning)
    /\ \E r \in {NativeStop(srv[s], procs, out) : out \in StopOutcomesOf(ProcStateOf(srv[s]))} :
            /\ procs' = r.procs
            /\ StopReturn(s, r.srv,
                  [BaseRet("Stop", s) EXCEPT !.via = "native", !.err = r.err,
                                             !.sent = r.sent, !.sel = r.sel],
                  r.procs, distro, vm)
    /\ UNCHANGED <<cache, distro, guest, vm>>

ServerStop(s) ==
    /\ srv[s].alloc
    /\ \/ StopMacOS(s)
       \/ StopWSL2(s)
       \/ StopNative(s)

\* ---------------------------------------------------------------- the host
\* A native engine process exits by itself (it crashes, or the context given
\* to exec.CommandContext is cancelled and the runtime kills it).
ProcExit(p) ==
    /\ procs[p] = "alive"
    /\ \E st \in {"exited0", "exitedErr"} : procs' = Forget([procs EXCEPT ![p] = st], srv)
    /\ UNCHANGED <<env, stopWait, auxVars, cache, distro, guest, vm, srv, life, ret, kind, mgrVars>>

\* The WSL2 distribution shuts down (idle timeout, `wsl --shutdown`).
DistroStops ==
    /\ distro = "running"
    /\ distro' = "stopped"
    /\ guest' = [guest EXCEPT !.running = FALSE]
    /\ UNCHANGED <<env, stopWait, auxVars, cache, vm, procs, srv, life, ret, kind, mgrVars>>

\* The hyperkit process exits.
VMExit ==
    /\ vm = "up"
    /\ vm' = "down"
    /\ UNCHANGED <<env, stopWait, auxVars, cache, distro, guest, procs, srv, life, ret, kind, mgrVars>>

HostStep == (\E p \in Pids : ProcExit(p)) \/ DistroStops \/ VMExit

\* --------------------------------------------- one Server, called directly
OSes == {"linux", "darwin", "windows"}
RunModes == {"server", "client", "both"}

AllOf(b) == [c \in Components |-> b]

\* The hosts a Server can be constructed on: the application ships all its
\* bundled binaries or none, and a host without them has containerd and runc,
\* containerd alone, or neither on its PATH.  Off Windows the address is the
\* default one.  On macOS Start never reaches the native engine, so the
\* binaries play no part there.
ServerEnvs ==
    {e \in [goos : OSes, cfgAddr : {EmptyAddr, CustomSock},
            bundled : {AllOf(TRUE), AllOf(FALSE)}, onPath : [Components -> BOOLEAN],
            runAs : {"server"}] :
        /\ e.goos = "darwin" => e.bundled = AllOf(FALSE) /\ e.onPath = AllOf(FALSE)
        /\ e.goos # "windows" => e.cfgAddr = EmptyAddr
        /\ e.bundled = AllOf(TRUE) => e.onPath = AllOf(FALSE)
        /\ e.onPath["runc"] => e.onPath["containerd"]}

HostInit ==
    /\ cache = [c \in Components |-> "absent"]
    /\ distro \in (IF env.goos = "windows" THEN {"absent", "stopped"} ELSE {"absent"})
    /\ guest = [installed |-> FALSE, running |-> FALSE]
    /\ vm \in (IF env.goos = "darwin" THEN {"down", "up"} ELSE {"down"})
    /\ procs = [p \in Pids |-> "free"]

\* server: the variable `server` of Manager.Start; launched: its server.Start
\* launched a backend; clientErr: the variable `clientErr` of Manager.Stop.
NoLocal == [server |-> 0, launched |-> FALSE, clientErr |-> FALSE]

MgrIdle ==
    /\ mgr = [server |-> 0, client |-> 0, clientSocket |-> GetFunSocketPath(env.goos)]
    /\ clients = [c \in ClientIds |-> "free"]
    /\ pc = [g \in Goroutines |-> "idle"]
    /\ loc = [g \in Goroutines |-> NoLocal]
    /\ mret = [op |-> "none", err |-> "nil"]
    /\ bridge = "none"

Init ==
    /\ env \in ServerEnvs
    /\ HostInit
    /\ srv = [s \in ServerIds |-> IF s = 1 THEN NewServer(env.cfgAddr) ELSE NoServer]
    /\ life = [s \in ServerIds |-> "never"]
    /\ kind = [s \in ServerIds |-> "none"]
    /\ stopWait = NoWait
    /\ AuxIdle
    /\ ret = NoRet
    /\ MgrIdle

Start == ServerStart(1) /\ UNCHANGED <<env, stopWait, auxVars, mgrVars>>
Stop == ServerStop(1) /\ UNCHANGED <<env, stopWait, auxVars, mgrVars>>

Next == Start \/ Stop \/ HostStep

Spec == Init /\ [][Next]_vars

\* ------------------------------- the extraction functions, called directly
\* EnsureBundledContainerdExtracted() / EnsureBundledRuncExtracted().
\*   found   the state of the cache destination when the call was made
\*   prev    the component and the result of the call made just before
EnsureExtracted(c) ==
    /\ \E io \in {"none", "open", "copy"} :
         LET r == ExtractBundled(c, cache, io)
         IN /\ cache' = r.cache
            /\ xlog' = [c |-> c, err |-> r.err, wrote |-> r.wrote, found |-> cache[c],
                        prev |-> [c |-> xlog.c, err |-> xlog.err]]
    /\ UNCHANGED <<env, stopWait, distro, guest, vm, procs, srvVars, mgrVars, raceVars,
                   queryVars, wfs, up>>

ExtractContainerd == EnsureExtracted("containerd")
ExtractRunc == EnsureExtracted("runc")

ExtractNext == ExtractContainerd \/ ExtractRunc

ExtractSpec == Init /\ [][ExtractNext]_vars

\* ------------------------ the extraction functions, their steps interleaved
\* extractBundledContainerd / EnsureBundledRuncExtracted take no lock.  A call
\* is followed through its steps: MkdirAll and the test of the destination,
\* the test and the open of the source, the open of the destination, io.Copy
\* block by block, the return.  The file system does not fail here (that is
\* ExtractBundled's `io`): what is followed is the interleaving of the calls.
\*   pc     "idle" | "check" | "open" | "copy" | "done"
\*   c      the component the call extracts
\*   off    the offset of the call's destination descriptor, in blocks
\*   err    the call returned an error
\*   raced  another call had the same destination open while this one wrote
RaceFrame ==
    UNCHANGED <<env, stopWait, xlog, distro, guest, vm, procs, srvVars, mgrVars,
                queryVars, wfs, up>>

XOthersWriting(i) ==
    \E j \in Callers \ {i} :
        xcall[j].pc = "copy" /\ xcall[j].c = xcall[i].c /\ xcall[j].off > 0

\* WriteAt: a write of one block at offset `off` of a descriptor opened
\* without O_APPEND and without O_TRUNC.
WriteAt(f, off, b) ==
    IF off < Len(f) THEN [f EXCEPT ![off + 1] = b] ELSE Append(f, b)

\* The call is made: os.MkdirAll (lines 22 / 144).
XBegin(i, c) ==
    /\ xcall[i].pc \in {"idle", "done"}
    /\ xcall' = [xcall EXCEPT ![i] = [NoCall EXCEPT !.pc = "check", !.c = c]]
    /\ UNCHANGED <<cache, dest>>
    /\ RaceFrame

\* os.Stat of the destination (lines 29 / 151): there and executable, the
\* call returns nil; else os.Stat and os.Open of the source (lines 46-55 /
\* 170-179), which fail when no source is bundled.
XCheck(i) ==
    /\ xcall[i].pc = "check"
    /\ xcall' = [xcall EXCEPT ![i] =
            IF cache[@.c] = "exec" THEN [@ EXCEPT !.pc = "done"]
            ELSE IF ~env.bundled[@.c] THEN [@ EXCEPT !.pc = "done", !.err = TRUE]
            ELSE [@ EXCEPT !.pc = "open"]]
    /\ UNCHANGED <<cache, dest>>
    /\ RaceFrame

\* A faulty variant of XOpenDest that opens the destination with O_EXCL:
\* C21_ConcurrentExtractionBenign tells the two apart.
XOpenDest_Excl(i) ==
    /\ xcall[i].pc = "open"
    /\ IF cache[xcall[i].c] # "absent"
       THEN /\ xcall' = [xcall EXCEPT ![i] = [@ EXCEPT !.pc = "done", !.err = TRUE]]
            /\ cache' = cache
       ELSE /\ xcall' = [xcall EXCEPT ![i] = [@ EXCEPT !.pc = "copy"]]
            /\ cache' = [cache EXCEPT ![xcall[i].c] = CreatedMode]
    /\ dest' = dest
    /\ RaceFrame

\* os.OpenFile(bundledPath, O_CREATE|O_WRONLY, 0755) (lines 58 / 181): the
\* file is created when it is not there, and is neither truncated nor locked
\* when it is; the descriptor starts at offset 0.
XOpenDest(i) ==
    /\ xcall[i].pc = "open"
    /\ xcall' = [xcall EXCEPT ![i] = [@ EXCEPT !.pc = "copy"]]
    /\ cache' = [cache EXCEPT ![xcall[i].c] = IF @ = "absent" THEN CreatedMode ELSE @]
    /\ dest' = dest
    /\ RaceFrame

\* io.Copy (lines 65 / 187) moves the next block of the source to the
\* descriptor's offset.
XCopy(i) ==
    /\ xcall[i].pc = "copy"
    /\ xcall[i].off < NumChunks
    /\ dest' = [dest EXCEPT ![xcall[i].c] =
                   WriteAt(@, xcall[i].off, BundledContent[xcall[i].off + 1])]
    /\ xcall' = [xcall EXCEPT ![i] =
                    [@ EXCEPT !.off = @ + 1, !.raced = @ \/ XOthersWriting(i)]]
    /\ cache' = cache
    /\ RaceFrame

\* io.Copy meets the end of the source: the files are closed, nil is returned.
XReturn(i) ==
    /\ xcall[i].pc = "copy"
    /\ xcall[i].off = NumChunks
    /\ xcall' = [xcall EXCEPT ![i] = [@ EXCEPT !.pc = "done"]]
    /\ UNCHANGED <<cache, dest>>
    /\ RaceFrame

RaceNext ==
    \/ \E i \in Callers, c \in Components : XBegin(i, c)
    \/ \E i \in Callers : XCheck(i)
    \/ \E i \in Callers : XOpenDest(i)
    \/ \E i \in Callers : XCopy(i)
    \/ \E i \in Callers : XReturn(i)

RaceSpec == Init /\ [][RaceNext]_vars

\* ----------------------------------------- the queries, made on their own
\* GetContainerdPath(), GetRuncPath(), GetHyperKitPath() and
\* IsLinuxKitVMRunning(config) read the host and change nothing.  The host
\* they are made on: any cache an earlier run has left, any PATH, any PID
\* file.
QueryEnvs ==
    [goos : OSes, cfgAddr : {EmptyAddr}, bundled : {AllOf(FALSE)},
     onPath : [Components -> BOOLEAN], runAs : {"server"}]

VMHosts ==
    [hkCache : BOOLEAN, hkOnPath : BOOLEAN, pidFile : {"absent", "garbage", "pid"},
     probe : BOOLEAN]

QueryInit ==
    /\ env \in QueryEnvs
    /\ cache \in [Components -> {"absent", "exec", "noexec"}]
    /\ vmh \in {h \in VMHosts : h.probe => h.pidFile = "pid"}
    /\ vm = (IF IsLinuxKitVMRunning(env.goos, vmh) THEN "up" ELSE "down")
    /\ distro = "absent"
    /\ guest = [installed |-> FALSE, running |-> FALSE]
    /\ procs = [p \in Pids |-> "free"]
    /\ srv = [s \in ServerIds |-> NoServer]
    /\ life = [s \in ServerIds |-> "never"]
    /\ kind = [s \in ServerIds |-> "none"]
    /\ stopWait = NoWait
    /\ ret = NoRet
    /\ MgrIdle
    /\ xlog = NoXLog
    /\ xcall = [i \in Callers |-> NoCall]
    /\ dest = [c \in Components |-> <<>>]
    /\ qlog = NoQuery
    /\ wfs = NoWaitCall
    /\ up = NoUp

QueryReturn(q) ==
    /\ qlog' = q
    /\ UNCHANGED <<env, stopWait, xlog, hostVars, srvVars, mgrVars, raceVars, vmh, wfs, up>>

QContainerdPath ==
    QueryReturn([NoQuery EXCEPT !.fn = "GetContainerdPath", !.path = GetContainerdPath(cache),
                                !.inCache = cache["containerd"] # "absent",
                                !.onPath = env.onPath["containerd"]])

QRuncPath ==
    QueryReturn([NoQuery EXCEPT !.fn = "GetRuncPath", !.path = GetRuncPath(cache),
                                !.inCache = cache["runc"] # "absent",
                                !.onPath = env.onPath["runc"]])

QHyperKitPath ==
    QueryReturn([NoQuery EXCEPT !.fn = "GetHyperKitPath", !.path = GetHyperKitPath(vmh),
                                !.inCache = vmh.hkCache, !.onPath = vmh.hkOnPath])

QVMRunning ==
    QueryReturn([NoQuery EXCEPT !.fn = "IsLinuxKitVMRunning",
                                !.running = IsLinuxKitVMRunning(env.goos, vmh)])

QueryNext == QContainerdPath \/ QRuncPath \/ QHyperKitPath \/ QVMRunning

QuerySpec == QueryInit /\ [][QueryNext]_vars

\* --------------------------------------------------------------- Compose.Up
\* A loaded compose configuration, any depends_on lists, and for each
\* service a container that is there already (from an earlier Up) or not.
ComposeInit ==
    /\ env = [goos |-> "linux", cfgAddr |-> EmptyAddr, bundled |-> AllOf(FALSE),
              onPath |-> AllOf(TRUE), runAs |-> "client"]
    /\ cache = [c \in Components |-> "absent"]
    /\ distro = "absent"
    /\ guest = [installed |-> FALSE, running |-> FALSE]
    /\ vm = "down"
    /\ procs = [p \in Pids |-> "free"]
    /\ srv = [s \in ServerIds |-> NoServer]
    /\ life = [s \in ServerIds |-> "never"]
    /\ kind = [s \in ServerIds |-> "none"]
    /\ stopWait = NoWait
    /\ ret = NoRet
    /\ MgrIdle
    /\ xlog = NoXLog
    /\ xcall = [i \in Callers |-> NoCall]
    /\ dest = [c \in Components |-> <<>>]
    /\ vmh = NoVMHost
    /\ qlog = NoQuery
    /\ wfs = NoWaitCall
    /\ \E d \in [Services -> DepLists], e \in [Services -> {"none", "created"}] :
          up = [NoUp EXCEPT !.deps = d, !.containers = e]

ComposeFrame ==
    UNCHANGED <<env, stopWait, xlog, hostVars, srvVars, mgrVars, raceVars, queryVars, wfs>>

\* lines 77-83: Up is called, the configuration being loaded.
UpBegin ==
    /\ up.result = "idle"
    /\ up' = [up EXCEPT !.result = "running", !.pending = Services]
    /\ ComposeFrame

\* lines 89-90: the range loop takes a service; Go visits the entries of a
\* map in no fixed order.
UpRange ==
    /\ up.result = "running" /\ up.stack = <<>>
    /\ \E s \in up.pending :
          up' = [up EXCEPT !.pending = @ \ {s}, !.stack = <<[svc |-> s, i |-> 1]>>]
    /\ ComposeFrame

\* line 95: the loop is over.
UpReturn ==
    /\ up.result = "running" /\ up.stack = <<>> /\ up.pending = {}
    /\ up' = [up EXCEPT !.result = "ok"]
    /\ ComposeFrame

\* startService returns an error: every caller on the stack returns it, and
\* Up wraps it (lines 91-92, 204-206).
UpFail(u, e) == [u EXCEPT !.result = "error", !.err = e, !.stack = <<>>]

\* startService returns nil: its caller goes on to its next dependency.
UpPop(u) ==
    LET n == Len(u.stack)
    IN IF n = 1 THEN [u EXCEPT !.stack = <<>>]
       ELSE [u EXCEPT !.stack = [SubSeq(u.stack, 1, n - 1) EXCEPT ![n - 1].i = @ + 1]]

OnStack(u, s) == \E k \in 1..Len(u.stack) : u.stack[k].svc = s

\* lines 199-207: the next dependency of the innermost startService.  An
\* undefined one is an error.  A defined one is started by a nested call; a
\* nested call for a service that has a call on the stack already repeats
\* that call's steps, nothing having changed, and so recurses without end
\* until the goroutine's stack is exhausted ("overflow").
SvcDepends ==
    /\ up.result = "running" /\ up.stack # <<>>
    /\ LET f == up.stack[Len(up.stack)]
       IN /\ f.i <= Len(up.deps[f.svc])
          /\ LET dep == up.deps[f.svc][f.i]
             IN up' = IF dep \notin Services THEN UpFail(up, "undefined")
                      ELSE IF OnStack(up, dep) THEN [up EXCEPT !.result = "overflow"]
                      ELSE [up EXCEPT !.stack = Append(@, [svc |-> dep, i |-> 1])]
    /\ ComposeFrame

\* StartContainer: LoadContainer, NewTask, task.Start.  The engine's answer
\* is an input, also for a container that has a task already.
StartContainer(u, s, ok) ==
    IF ok THEN UpPop([u EXCEPT !.calls[s] = @ + 1, !.containers[s] = "running"])
    ELSE [u EXCEPT !.calls[s] = @ + 1]

\* lines 209-273: the dependencies are done.  A container that exists is
\* started (lines 210-218); else it is created and started (lines 255-273).
SvcContainer ==
    /\ up.result = "running" /\ up.stack # <<>>
    /\ LET f == up.stack[Len(up.stack)]
       IN /\ f.i > Len(up.deps[f.svc])
          /\ \E createOk, startOk \in BOOLEAN :
                up' = IF up.containers[f.svc] # "none"
                      THEN IF startOk THEN StartContainer(up, f.svc, TRUE)
                           ELSE UpFail(StartContainer(up, f.svc, FALSE), "startExisting")
                      ELSE IF ~createOk THEN UpFail(up, "create")
                      ELSE LET c == [up EXCEPT !.containers[f.svc] = "created"]
                           IN IF startOk THEN StartContainer(c, f.svc, TRUE)
                              ELSE UpFail(StartContainer(c, f.svc, FALSE), "start")
    /\ ComposeFrame

ComposeNext == UpBegin \/ UpRange \/ UpReturn \/ SvcDepends \/ SvcContainer

ComposeSpec == ComposeInit /\ [][ComposeNext]_vars

\* ------------------------------------- the WSL2 functions, called directly
\* InstallWSL2Components, StartWSL2Environment, EnsureContainerdInWSL and
\* StopWSL2Environment are exported: each is called here on its own, on a
\* Windows host whose distribution is in any state.  ret.before holds the
\* state of the distribution the call found.
WslGuests == [installed : BOOLEAN, running : BOOLEAN]

WslInit ==
    /\ env = [goos |-> "windows", cfgAddr |-> EmptyAddr, bundled |-> AllOf(FALSE),
              onPath |-> AllOf(FALSE), runAs |-> "server"]
    /\ cache = [c \in Components |-> "absent"]
    /\ distro \in {"absent", "stopped", "running"}
    /\ guest \in {g \in WslGuests : /\ g.running => g.installed /\ distro = "running"
                                    /\ g.installed => distro # "absent"}
    /\ vm = "down"
    /\ procs = [p \in Pids |-> "free"]
    /\ srv = [s \in ServerIds |-> NoServer]
    /\ life = [s \in ServerIds |-> "never"]
    /\ kind = [s \in ServerIds |-> "none"]
    /\ stopWait = NoWait
    /\ ret = NoRet
    /\ MgrIdle
    /\ AuxIdle

WslReturn(op, r) ==
    /\ distro' = r.distro
    /\ guest' = r.guest
    /\ ret' = [NoRet EXCEPT !.op = op, !.err = r.err, !.steps = r.steps, !.before = distro]
    /\ UNCHANGED <<env, stopWait, auxVars, cache, vm, procs, srv, life, kind, mgrVars>>

WInstall ==
    \E r \in {InstallWSL2Components(distro, guest, wf) : wf \in WslFail} :
        WslReturn("InstallWSL2Components", r)

WStartEnv ==
    \E r \in {StartWSL2Environment(distro, guest, wf) : wf \in WslFail} :
        WslReturn("StartWSL2Environment", r)

WEnsure ==
    \E r \in {EnsureContainerdInWSL(distro, guest, ef) : ef \in EnsureFail} :
        WslReturn("EnsureContainerdInWSL", r)

WStopEnv ==
    \E r \in {StopWSL2Environment(distro, guest, fail) : fail \in BOOLEAN} :
        WslReturn("StopWSL2Environment",
                  [err |-> r.err, distro |-> r.distro, guest |-> r.guest, steps |-> <<>>])

WslNext == WInstall \/ WStartEnv \/ WEnsure \/ WStopEnv \/ DistroStops

WslSpec == WslInit /\ [][WslNext]_vars

Min(a, b) == IF a <= b THEN a ELSE b

\* ----------------------------------------- WaitForSocket, step by step
\* WaitForSocket(socketPath, timeout), utils.go 318-347, called with the
\* address of the Server.  Time is counted in milliseconds from the call; a
\* select with a ready case takes it before more time passes.
PollInterval == 100  \* time.NewTicker(100 * time.Millisecond)
TimeStep == 50       \* the longest step of the clock
MaxPolls == 3        \* the longest timeout followed, in poll intervals

Timeouts == {k * PollInterval : k \in 1..MaxPolls}

\* WaitForSocket touches nothing but its own locals.
WaitFrame ==
    UNCHANGED <<env, stopWait, xlog, hostVars, srvVars, mgrVars, raceVars, queryVars, up>>

\* The call: the deadline context and the ticker are created.
WCall ==
    /\ wfs.pc \in {"idle", "returned"}
    /\ \E tm \in Timeouts, there \in BOOLEAN :
         wfs' = [NoWaitCall EXCEPT !.pc = "waiting", !.addr = srv[1].address,
                                   !.timeout = tm, !.nextTick = PollInterval,
                                   !.path = there]
    /\ WaitFrame

\* ticker.C has a tick / ctx.Done() is closed.
TickReady == ~HasPipePrefix(wfs.addr) /\ wfs.clock >= wfs.nextTick
DeadlineReady == wfs.clock >= wfs.timeout

\* Time passes while the call blocks.
WTime ==
    /\ wfs.pc = "waiting"
    /\ ~TickReady /\ ~DeadlineReady
    /\ wfs' = [wfs EXCEPT !.clock =
                 Min(@ + TimeStep,
                     IF HasPipePrefix(wfs.addr) THEN wfs.timeout
                     ELSE Min(wfs.nextTick, wfs.timeout))]
    /\ WaitFrame

\* The engine creates its socket; or the socket goes away again.
WPathAppears ==
    /\ wfs.pc = "waiting"
    /\ ~wfs.path
    /\ wfs' = [wfs EXCEPT !.path = TRUE, !.since = wfs.clock]
    /\ WaitFrame

WPathVanishes ==
    /\ wfs.pc = "waiting"
    /\ wfs.path
    /\ wfs' = [wfs EXCEPT !.path = FALSE, !.since = 0]
    /\ WaitFrame

\* case <-ticker.C (lines 339-342): os.Stat; nil when the path is there.
WTick ==
    /\ wfs.pc = "waiting"
    /\ TickReady
    /\ wfs' = IF wfs.path
              THEN [wfs EXCEPT !.pc = "returned", !.result = "nil", !.probes = @ + 1]
              ELSE [wfs EXCEPT !.nextTick = @ + PollInterval, !.probes = @ + 1]
    /\ WaitFrame

\* A faulty variant of WDeadline for a loop without the ctx.Done() case:
\* C26_WaitTerminates tells the two apart.
WDeadline_PipeOnly ==
    /\ wfs.pc = "waiting"
    /\ HasPipePrefix(wfs.addr)
    /\ DeadlineReady
    /\ wfs' = [wfs EXCEPT !.pc = "returned", !.result = "timeout"]
    /\ WaitFrame

\* <-ctx.Done() (line 329, with ctx.Err() == DeadlineExceeded at line 330, and
\* lines 343-344): the timeout error.
WDeadline ==
    /\ wfs.pc = "waiting"
    /\ DeadlineReady
    /\ wfs' = [wfs EXCEPT !.pc = "returned", !.result = "timeout"]
    /\ WaitFrame

WaitNext ==
    \/ WCall
    \/ WTime
    \/ WPathAppears
    \/ WPathVanishes
    \/ WTick
    \/ WDeadline

\* Time does not stop, and a select with a ready case returns.
WaitSpec ==
    Init /\ [][WaitNext]_vars /\ WF_vars(WTime) /\ WF_vars(WTick \/ WDeadline)

\* ------------------------------------- Server.Stop, its wait step by step
\* Server.Stop holds s.mutex from its first line to its return.  Here the
\* call is followed through the select it blocks in (server.go 319-338,
\* utils.go 565-577) while time passes, the process exits or the caller's
\* context is cancelled.
NativeStopBudget == 30   \* seconds: time.After(30 * time.Second)
VMStopBudget == 10       \* seconds: time.After(10 * time.Second)
TickLen == 10            \* seconds that pass in one step of the clock

Budget(k) == IF k = "vm" THEN VMStopBudget ELSE NativeStopBudget

\* Server.Stop returns before its select: nothing to stop (line 304), or the
\* interrupt cannot be sent (line 309).
NativeStopsAtOnce(s) ==
    \/ ~srv[s].running
    \/ srv[s].cmdPid = 0
    \/ SignalFails(ProcStateOf(srv[s]))

\* A faulty variant of NativeReady whose timer is ready from the start:
\* C11_TimeoutEscalation tells the two apart.
NativeReady_EarlyTimer(w, st) ==
    (IF st = "exited0" THEN {"done0"} ELSE IF st = "exitedErr" THEN {"doneErr"} ELSE {})
    \cup (IF st = "alive" THEN {"timeout"} ELSE {"timeout", "timeoutKillErr"})
    \cup (IF w.ctx # "cancelled" THEN {}
          ELSE IF st = "alive" THEN {"ctx"} ELSE {"ctx", "ctxKillErr"})

\* The ways the select of Server.Stop can end now: `done` once cmd.Wait() has
\* returned, the timer once 30s have passed, ctx.Done() once the caller's
\* context is cancelled.  Kill fails on a process that has been waited for.
NativeReady(w, st) ==
    (IF st = "exited0" THEN {"done0"} ELSE IF st = "exitedErr" THEN {"doneErr"} ELSE {})
    \cup (IF w.clock < NativeStopBudget THEN {}
          ELSE IF st = "alive" THEN {"timeout"} ELSE {"timeout", "timeoutKillErr"})
    \cup (IF w.ctx # "cancelled" THEN {}
          ELSE IF st = "alive" THEN {"ctx"} ELSE {"ctx", "ctxKillErr"})

\* The ways the select of StopLinuxKitVM can end now: process.Wait() returned
\* (with an error at any time, when the process is not a child of this one),
\* or 10s have passed and the process is killed.
VMReady(w, v) ==
    {"waitErr"}
    \cup (IF v = "down" THEN {"exited"} ELSE {})
    \cup (IF w.clock < VMStopBudget THEN {}
          ELSE IF v = "up" THEN {"timeoutKill"} ELSE {"timeoutKill", "timeoutKillErr"})

\* Server.Stop up to its select.
TStopBegin(s) ==
    /\ ~stopWait.active
    /\ srv[s].alloc
    /\ \/ /\ StopMacOSWith(s, {"killErr"})
          /\ stopWait' = stopWait
       \/ /\ IsRunningOnMacOS /\ srv[s].vmRunning /\ vm = "up"
          /\ stopWait' = [NoWait EXCEPT !.active = TRUE, !.kind = "vm"]
          /\ UNCHANGED <<hostVars, srvVars>>
       \/ /\ StopWSL2(s)
          /\ stopWait' = stopWait
       \/ /\ NativeStopsAtOnce(s)
          /\ StopNative(s)
          /\ stopWait' = stopWait
       \/ /\ ~(IsRunningOnMacOS /\ srv[s].vmRunning)
          /\ ~(IsRunningOnWindows /\ srv[s].wslRunning)
          /\ ~NativeStopsAtOnce(s)
          /\ \E c \in {"live", "cancelled"} :
               stopWait' = [NoWait EXCEPT !.active = TRUE, !.kind = "native", !.ctx = c,
                                          !.found = ProcStateOf(srv[s])]
          /\ UNCHANGED <<hostVars, srvVars>>
    /\ UNCHANGED <<env, auxVars, mgrVars>>

\* The select of the native Stop ends, and Stop returns.
TFireNative(s) ==
    /\ stopWait.kind = "native"
    /\ \E out \in NativeReady(stopWait, ProcStateOf(srv[s])) :
         LET r == IF out \in {"done0", "doneErr"} THEN StopDone(srv[s], procs, out)
                  ELSE StopKill(srv[s], procs, out)
         IN /\ procs' = r.procs
            /\ StopReturn(s, r.srv,
                  [BaseRet("Stop", s) EXCEPT
                      !.via = "native", !.err = r.err, !.sent = r.sent, !.sel = r.sel,
                      !.procBefore = stopWait.found,
                      !.elapsed = stopWait.clock,
                      !.ctxDone = (stopWait.ctx = "cancelled"),
                      !.procAtSel = ProcStateOf(srv[s])],
                  r.procs, distro, vm)
    /\ UNCHANGED <<cache, distro, guest, vm>>

\* The select of StopLinuxKitVM ends, and Stop returns (lines 286-291).
TFireVM(s) ==
    /\ stopWait.kind = "vm"
    /\ \E out \in VMReady(stopWait, vm) :
         LET r == StopLinuxKitVM("up", out)
             v2 == IF out = "timeoutKill" THEN "down" ELSE vm
             b == [BaseRet("Stop", s) EXCEPT !.via = "vm", !.sent = r.sent, !.sel = out,
                                             !.steps = r.steps,
                                             !.elapsed = stopWait.clock]
         IN /\ vm' = v2
            /\ IF r.err # "nil"
               THEN StopReturn(s, srv[s], [b EXCEPT !.err = "vmStop"], procs, distro, v2)
               ELSE StopReturn(s, [srv[s] EXCEPT !.vmRunning = FALSE, !.running = FALSE],
                               b, procs, distro, v2)
    /\ UNCHANGED <<cache, distro, guest, procs>>

TStopFire(s) ==
    /\ stopWait.active
    /\ TFireNative(s) \/ TFireVM(s)
    /\ stopWait' = NoWait
    /\ UNCHANGED <<env, auxVars, mgrVars>>

\* A faulty variant of Tick in which the timer never fires: the clock stops
\* short of the budget.  C13_StopReturns tells the two apart.
Tick_NoTimer ==
    /\ stopWait.active
    /\ stopWait.clock + TickLen < Budget(stopWait.kind)
    /\ stopWait' = [stopWait EXCEPT !.clock = @ + TickLen]
    /\ UNCHANGED <<env, auxVars, hostVars, srvVars, mgrVars>>

\* Time passes while a Stop waits; the timer of its select fires at the
\* budget.
Tick ==
    /\ stopWait.active
    /\ stopWait.clock < Budget(stopWait.kind)
    /\ stopWait' = [stopWait EXCEPT !.clock = Min(@ + TickLen, Budget(stopWait.kind))]
    /\ UNCHANGED <<env, auxVars, hostVars, srvVars, mgrVars>>

\* The caller cancels the context it gave to Stop.
CtxCancel ==
    /\ stopWait.active
    /\ stopWait.kind = "native"
    /\ stopWait.ctx = "live"
    /\ stopWait' = [stopWait EXCEPT !.ctx = "cancelled"]
    /\ UNCHANGED <<env, auxVars, hostVars, srvVars, mgrVars>>

\* Start waits for s.mutex while a Stop holds it.
TStart == ~stopWait.active /\ Start

TimedNext ==
    \/ TStart
    \/ TStopBegin(1)
    \/ TStopFire(1)
    \/ Tick
    \/ CtxCancel
    \/ HostStep

\* Time does not stop, and a select with a ready case returns.
TimedSpec ==
    Init /\ [][TimedNext]_vars /\ WF_vars(Tick) /\ WF_vars(TStopFire(1))

\* ------------------------------------------------------------------ Manager
\* CheckContainerdRunning: os.Stat of a filesystem socket; a named pipe is
\* taken to be there.
CheckContainerdRunning(socket, statOk) == HasPipePrefix(socket) \/ statOk

\* NewClient.  On Windows (WSL2 is enabled in DefaultWSL2Config) the
\* prerequisites are checked first, and when GetContainerdClientConfig finds
\* WSL2 and the distribution it starts the socat helper and the client dials
\* the helper's pipe instead of `socket`.  GetContainerdClientConfig cancels,
\* on return, the context the helper was started with.
\*   in.prereqs  CheckWindowsLinuxContainerPrerequisites
\*   in.probe    IsWSL2Available() in GetContainerdClientConfig
\*   in.proxy    the helper could be spawned
\*   in.dial     containerd.New connects
\*   in.helper   the helper when the client dials: "alive" | "killed"
NewClientInputs ==
    [prereqs : BOOLEAN, probe : BOOLEAN, proxy : BOOLEAN, dial : BOOLEAN,
     helper : {"alive", "killed"}]

ProxyPipe == [scheme |-> "pipe", name |-> "fun-containerd-wsl-<pid>"]

NewClient(socket, d, br, in) ==
    IF IsRunningOnWindows /\ DefaultWSL2Config.Enabled /\ ~in.prereqs
    THEN [err |-> "prereqs", socket |-> socket, bridge |-> br]
    ELSE LET proxied == /\ IsRunningOnWindows /\ DefaultWSL2Config.Enabled
                        /\ in.probe /\ IsWSL2DistributionAvailable(d) /\ in.proxy
         IN [err |-> IF in.dial THEN "nil" ELSE "dial",
             socket |-> IF proxied THEN ProxyPipe ELSE socket,
             bridge |-> IF proxied THEN in.helper ELSE br]

FreeServers == {s \in ServerIds : ~srv[s].alloc}
FreeClients == {c \in ClientIds : clients[c] = "free"}

MgrReturn(g, op, err) ==
    /\ pc' = [pc EXCEPT ![g] = "idle"]
    /\ loc' = [loc EXCEPT ![g] = NoLocal]
    /\ mret' = [op |-> op, err |-> err]

MgrGoto(g, label) ==
    /\ pc' = [pc EXCEPT ![g] = label]
    /\ mret' = mret

ServesEngine == env.runAs \in {"server", "both"}
HasClient == env.runAs \in {"client", "both"}

\* Manager.Start, lines 375-381: IsContainerdInstalled, then NewServer.
MStartBegin(g) ==
    /\ pc[g] = "idle"
    /\ IF ServesEngine
       THEN IF ~IsContainerdInstalled(cache)
            THEN /\ MgrReturn(g, "Start", "notInstalled")
                 /\ srv' = srv
            ELSE /\ FreeServers # {}
                 /\ LET s == CHOOSE x \in FreeServers : \A y \in FreeServers : x <= y
                    IN /\ srv' = [srv EXCEPT ![s] = NewServer(env.cfgAddr)]
                       /\ loc' = [loc EXCEPT ![g] = [NoLocal EXCEPT !.server = s]]
                 /\ MgrGoto(g, "serverStart")
       ELSE /\ MgrGoto(g, "client")
            /\ UNCHANGED <<srv, loc>>
    /\ UNCHANGED <<env, stopWait, auxVars, hostVars, life, ret, kind, mgr, clients, bridge>>

\* Manager.Start, lines 382-384: server.Start(ctx) on the new Server.
MServerStart(g) ==
    /\ pc[g] = "serverStart"
    /\ ServerStart(loc[g].server)
    /\ IF ret'.err # "nil"
       THEN MgrReturn(g, "Start", "serverStart")
       ELSE /\ MgrGoto(g, "assign")
            /\ loc' = [loc EXCEPT ![g].launched = ret'.launched # {}]
    /\ UNCHANGED <<env, stopWait, auxVars, mgr, clients, bridge>>

\* Manager.Start, lines 385-390: m.server = server; in "both" mode the client
\* socket becomes the server's address.
MAssign(g) ==
    /\ pc[g] = "assign"
    /\ mgr' = [mgr EXCEPT !.server = loc[g].server,
                          !.clientSocket = IF env.runAs = "both"
                                           THEN srv[loc[g].server].address ELSE @]
    /\ IF HasClient
       THEN MgrGoto(g, "client") /\ loc' = loc
       ELSE MgrReturn(g, "Start", "nil")
    /\ UNCHANGED <<env, stopWait, auxVars, hostVars, srvVars, clients, bridge>>

\* Manager.Start, lines 394-410: the client.  When NewClient fails and a
\* server is set, the call goes on to stop it.
MClient(g) ==
    /\ pc[g] = "client"
    /\ \E statOk \in BOOLEAN :
         IF env.runAs = "client" /\ ~CheckContainerdRunning(mgr.clientSocket, statOk)
         THEN /\ MgrReturn(g, "Start", "noInstance")
              /\ UNCHANGED <<mgr, clients, bridge>>
         ELSE /\ FreeClients # {}
              /\ \E c \in {NewClient(mgr.clientSocket, distro, bridge, in) :
                             in \in NewClientInputs} :
                   /\ bridge' = c.bridge
                   /\ IF c.err # "nil"
                      THEN /\ IF mgr.server # 0
                              THEN MgrGoto(g, "cleanup") /\ loc' = loc
                              ELSE MgrReturn(g, "Start", "newClient")
                           /\ UNCHANGED <<mgr, clients>>
                      ELSE /\ LET id == CHOOSE x \in FreeClients :
                                            \A y \in FreeClients : x <= y
                              IN /\ clients' = [clients EXCEPT ![id] = "open"]
                                 /\ mgr' = [mgr EXCEPT !.client = id]
                           /\ MgrReturn(g, "Start", "nil")
    /\ UNCHANGED <<env, stopWait, auxVars, hostVars, srvVars>>

\* Manager.Start, lines 403-407: m.server.Stop(ctx); m.server = nil; the
\* client error is returned.
MCleanup(g) ==
    /\ pc[g] = "cleanup"
    /\ IF mgr.server # 0 THEN ServerStop(mgr.server) ELSE UNCHANGED <<srvVars, hostVars>>
    /\ mgr' = [mgr EXCEPT !.server = 0]
    /\ MgrReturn(g, "Start", "newClient")
    /\ UNCHANGED <<env, stopWait, auxVars, clients, bridge>>

\* A faulty variant of MStopClient that closes the client and keeps the
\* handle: C15_NilWhenNotApplicable tells the two apart.
MStopClient_KeepsHandle(g) ==
    /\ pc[g] = "idle"
    /\ IF mgr.client # 0
       THEN /\ clients' = [clients EXCEPT ![mgr.client] = "closed"]
            /\ mgr' = mgr
            /\ \E closeErr \in BOOLEAN : loc' = [loc EXCEPT ![g].clientErr = closeErr]
       ELSE UNCHANGED <<clients, mgr, loc>>
    /\ MgrGoto(g, "stopServer")
    /\ UNCHANGED <<env, stopWait, auxVars, hostVars, srvVars, bridge>>

\* Manager.Stop, lines 420-423: close the client and forget it.
MStopClient(g) ==
    /\ pc[g] = "idle"
    /\ IF mgr.client # 0
       THEN /\ clients' = [clients EXCEPT ![mgr.client] = "closed"]
            /\ mgr' = [mgr EXCEPT !.client = 0]
            /\ \E closeErr \in BOOLEAN : loc' = [loc EXCEPT ![g].clientErr = closeErr]
       ELSE UNCHANGED <<clients, mgr, loc>>
    /\ MgrGoto(g, "stopServer")
    /\ UNCHANGED <<env, stopWait, auxVars, hostVars, srvVars, bridge>>

\* Manager.Stop, lines 426-439: stop the server and forget it; the first
\* error is returned.
MStopServer(g) ==
    /\ pc[g] = "stopServer"
    /\ IF mgr.server # 0 THEN ServerStop(mgr.server) ELSE UNCHANGED <<srvVars, hostVars>>
    /\ mgr' = [mgr EXCEPT !.server = 0]
    /\ MgrReturn(g, "Stop",
           IF loc[g].clientErr THEN "clientClose"
           ELSE IF mgr.server # 0 /\ ret'.err # "nil" THEN "serverStop"
           ELSE "nil")
    /\ UNCHANGED <<env, stopWait, auxVars, clients, bridge>>

\* A faulty variant of BridgeKilled in which nothing ends the helper:
\* C34_HelperIsKilled tells the two apart.
BridgeKilled_Never ==
    /\ bridge = "alive"
    /\ UNCHANGED vars

\* The socat helper ends.  It was started with exec.CommandContext under the
\* context that GetContainerdClientConfig cancels when it returns, so the
\* runtime kills it; `wsl --terminate` ends it too, with the guest.
BridgeKilled ==
    /\ bridge = "alive"
    /\ bridge' = "killed"
    /\ UNCHANGED <<env, stopWait, auxVars, hostVars, srvVars, mgr, clients, pc, loc, mret>>

\* The hosts a Manager can be constructed on, for each run mode; the server
\* address is left empty in its configuration.
MgrEnvs ==
    {e \in [goos : OSes, cfgAddr : {EmptyAddr},
            bundled : {AllOf(TRUE), AllOf(FALSE)}, onPath : {AllOf(TRUE), AllOf(FALSE)},
            runAs : RunModes] :
        e.bundled = AllOf(TRUE) => e.onPath = AllOf(FALSE)}

MgrInit ==
    /\ env \in MgrEnvs
    /\ HostInit
    /\ srv = [s \in ServerIds |-> NoServer]
    /\ life = [s \in ServerIds |-> "never"]
    /\ kind = [s \in ServerIds |-> "none"]
    /\ stopWait = NoWait
    /\ AuxIdle
    /\ ret = NoRet
    /\ MgrIdle

MgrCall(g) ==
    \/ MStartBegin(g)
    \/ MServerStart(g)
    \/ MAssign(g)
    \/ MClient(g)
    \/ MCleanup(g)
    \/ MStopClient(g)
    \/ MStopServer(g)

\* Calls on one Manager from one goroutine at a time.
Alone(g) == \A h \in Goroutines \ {g} : pc[h] = "idle"

MgrSeqNext ==
    \/ \E g \in Goroutines : Alone(g) /\ MStartBegin(g)
    \/ \E g \in Goroutines : Alone(g) /\ MServerStart(g)
    \/ \E g \in Goroutines : Alone(g) /\ MAssign(g)
    \/ \E g \in Goroutines : Alone(g) /\ MClient(g)
    \/ \E g \in Goroutines : Alone(g) /\ MCleanup(g)
    \/ \E g \in Goroutines : Alone(g) /\ MStopClient(g)
    \/ \E g \in Goroutines : Alone(g) /\ MStopServer(g)
    \/ HostStep
    \/ BridgeKilled

MgrSeqSpec == MgrInit /\ [][MgrSeqNext]_vars

\* The helper and the backend together: a Manager in "both" mode on a Windows
\* host with the binaries on the PATH, called from one goroutine.  The goroutine
\* that exec.Cmd.Start leaves watching the helper's context is scheduled: a
\* kill that is due happens.
BridgeInit ==
    /\ MgrInit
    /\ env.goos = "windows" /\ env.runAs = "both" /\ env.onPath = AllOf(TRUE)

BridgeNext == MgrCall(1) \/ DistroStops \/ BridgeKilled

BridgeSpec == BridgeInit /\ [][BridgeNext]_vars /\ WF_vars(BridgeKilled)

\* Calls on one Manager from several goroutines.
MgrNext ==
    \/ \E g \in Goroutines : MgrCall(g)
    \/ HostStep
    \/ BridgeKilled

MgrSpec == MgrInit /\ [][MgrNext]_vars

\* ================================================================= claims
\* The backends that have been launched and are active on the host.
ActiveBackends ==
    (IF \E p \in Pids : procs[p] = "alive" THEN {"native"} ELSE {})
    \cup (IF distro = "running" THEN {"wsl"} ELSE {})
    \cup (IF vm = "up" THEN {"vm"} ELSE {})

\* C1: over any sequence of Start and Stop calls on a Server, at most one of
\* the hypervisor VM, the WSL2 distribution and the native engine process is
\* launched and active at any time.
C1_AtMostOneBackend == Cardinality(ActiveBackends) <= 1

\* C2: between calls on a Manager made one after the other, every Server an
\* earlier Start created and the Manager no longer references has no active
\* backend, and every client an earlier Start opened and the Manager no
\* longer references is closed.
C2_ManagerOwnsAtMostOne ==
    (\A g \in Goroutines : pc[g] = "idle")
    => (/\ \A s \in ServerIds :
             (srv[s].alloc /\ s # mgr.server)
             => ~BackendAliveOf(srv[s], procs, distro, vm)
        /\ \A c \in ClientIds : clients[c] = "open" => c = mgr.client)

\* C3: of the Manager.Start calls in flight on one Manager, at most one has
\* launched a backend.
C3_ConcurrentStartsLaunchOnce ==
    Cardinality({g \in Goroutines : pc[g] # "idle" /\ loc[g].launched}) <= 1

\* C4: a Start whose WSL2 attempt failed at any step (probe, provisioning,
\* launch, mount, in-guest engine installation) does not return that failure:
\* it goes on to the native engine and ends there.
C4_WSLFailureFallsBack ==
    (ret.op = "Start" /\ ret.wslErr \notin {"n/a", "nil"}) => ret.via = "native"

\* C5: on Windows, with WSL2 reported unavailable, the default (named-pipe)
\* address, the binaries resolved and the engine spawned and reachable, Start
\* returns no error and leaves the Server running with the engine alive.
C5_NativeFallbackSucceeds ==
    (/\ ret.op = "Start" /\ env.goos = "windows" /\ env.cfgAddr = EmptyAddr
     /\ ret.wslErr = "notAvailable" /\ "native" \in ret.launched /\ ret.reachable)
    => (/\ ret.err = "nil"
        /\ srv[ret.s].running
        /\ srv[ret.s].cmdPid # 0)

\* C6: a Start that fails in the hypervisor VM or in the native engine returns
\* the error, leaves IsRunning() false, and tries no backend after the one
\* that failed.
C6_FatalFailure ==
    (ret.op = "Start" /\ ret.via \in {"vm", "native"} /\ ret.err # "nil")
    => (/\ ~srv[ret.s].running
        /\ ret.tried[Len(ret.tried)] = ret.via
        /\ (ret.via = "vm" => ret.tried = <<"vm">> /\ ret.launched = {})
        /\ ret.launched \subseteq {"wsl", "native"})

C6_Witness ==
    /\ ret.op = "Start" /\ ret.via = "native" /\ ret.err = "spawn"
    /\ ret.tried = <<"wsl", "native">>

\* C7: after a Start that returns no error, IsRunning() is true and
\* GetSocketAddress() is the address of the backend that was started: the
\* configured address for the native engine, the distribution-qualified
\* virtual path for WSL2.
C7_AddressOfStartedBackend ==
    (ret.op = "Start" /\ ret.err = "nil")
    => (/\ srv[ret.s].running
        /\ (ret.via = "native" => srv[ret.s].address = ConfiguredAddress)
        /\ (ret.via = "wsl" => srv[ret.s].address = WslAddr))

\* C8: when the address of the spawned native engine does not become
\* reachable within the readiness budget, Start kills the process, returns
\* the readiness error and leaves IsRunning() false; and a Start that ends in
\* the native engine with IsRunning() true has had its readiness wait succeed.
C8_ReadinessTimeout ==
    /\ (ret.op = "Start" /\ "native" \in ret.launched /\ ~ret.reachable)
       => (/\ ret.err = "readiness"
           /\ "kill" \in ret.sent
           /\ ~srv[ret.s].running
           /\ srv[ret.s].cmdPid # 0
           /\ procs[srv[ret.s].cmdPid] # "alive")
    /\ (ret.op = "Start" /\ ret.via = "native" /\ srv[ret.s].running)
       => ret.wait = "nil"

C8_Witness ==
    /\ ret.op = "Start" /\ "native" \in ret.launched /\ ~ret.reachable
    /\ ~HasPipePrefix(srv[ret.s].address)
    /\ ret.err = "readiness"

\* C9: a Stop on a Server whose backend was never started, or was already
\* shut down by an earlier Stop, returns no error and issues no signal and no
\* termination.
C9_StopIsNoop ==
    (ret.op = "Stop" /\ ret.before \in {"never", "stopped"})
    => (ret.err = "nil" /\ ret.sent = {})

\* C10: a Stop, with a context that is not cancelled, on a Server whose native
\* engine has exited by itself after a successful Start returns no error and
\* leaves IsRunning() false.
C10_StopAfterExit ==
    (/\ ret.op = "Stop" /\ ret.via = "native"
     /\ ret.procBefore \in {"exited0", "exitedErr"}
     /\ ret.sel \notin {"ctx", "ctxKillErr"})
    => (ret.err = "nil" /\ ~srv[ret.s].running)

\* C11: a native Stop whose select ends with the engine still alive and the
\* caller's context not cancelled has waited the whole 30s, kills the process
\* and returns the killed-after-timeout error; and no Stop whose context is
\* not cancelled kills before 30s have passed.
C11_TimeoutEscalation ==
    /\ (/\ ret.op = "Stop" /\ ret.via = "native" /\ ret.sel # "n/a"
        /\ ret.procAtSel = "alive" /\ ~ret.ctxDone)
       => (/\ ret.err = "killedTimeout"
           /\ "kill" \in ret.sent
           /\ ret.elapsed = NativeStopBudget
           /\ procs[srv[ret.s].cmdPid] # "alive")
    /\ (ret.op = "Stop" /\ ret.via = "native" /\ "kill" \in ret.sent /\ ~ret.ctxDone)
       => ret.elapsed >= NativeStopBudget

C11_Witness ==
    /\ ret.op = "Stop" /\ ret.sel = "timeout" /\ ret.procAtSel = "alive"
    /\ ~ret.ctxDone /\ ret.elapsed = NativeStopBudget

C13_StopReturns ==
    stopWait.active
    ~> (/\ ~stopWait.active
        /\ ret.op = "Stop"
        /\ ret.elapsed <= Budget(ret.via))

C13_Witness ==
    /\ ret.op = "Stop" /\ ret.via = "vm" /\ ret.sel = "timeoutKill"
    /\ ret.elapsed = VMStopBudget /\ ~srv[ret.s].running

\* C14: IsRunning() is true exactly when a Start has succeeded and no Stop
\* has since shut the backend down: right after a successful Start it is
\* true, it is true only on a Server whose backend was started and not
\* stopped since, and after a Stop that shut the backend down, gracefully or
\* by a forced kill, it is false.
C14_IsRunningReflectsLifecycle ==
    /\ (ret.op = "Start" /\ ret.err = "nil") => srv[ret.s].running
    /\ \A s \in ServerIds : srv[s].running => life[s] = "started"
    /\ (ret.op = "Stop" /\ "kill" \in ret.sent) => ~srv[ret.s].running

\* C15: in client-only mode the Manager never holds a server, in server-only
\* mode it never holds a client, and it holds neither before its first Start
\* nor when a Stop has returned.
C15_NilWhenNotApplicable ==
    /\ env.runAs = "client" => mgr.server = 0
    /\ env.runAs = "server" => mgr.client = 0
    /\ (mret.op \in {"none", "Stop"} /\ \A g \in Goroutines : pc[g] = "idle")
       => (mgr.server = 0 /\ mgr.client = 0)

C15_Witness ==
    /\ mret.op = "Stop" /\ env.runAs = "both"
    /\ \E c \in ClientIds : clients[c] = "closed"
    /\ \E s \in ServerIds : srv[s].alloc /\ life[s] = "stopped"
    /\ mgr.server = 0 /\ mgr.client = 0

\* C16: the format of the address of a running backend depends on the kind
\* of the backend alone: a Start that succeeded through WSL2 leaves the
\* distribution-qualified virtual path, one that succeeded through the native
\* engine a filesystem socket path or a named pipe, whatever the Server was
\* started with before and whatever the probes made during Start answer.
C16_AddressFormat ==
    (ret.op = "Start" /\ ret.err = "nil" /\ srv[ret.s].running)
    => (/\ ret.via = "wsl" => srv[ret.s].address.scheme = "wsl"
        /\ ret.via = "native" => srv[ret.s].address.scheme \in {"unix", "pipe"})

\* C17: every Start on a Server goes for the backend kind its first Start
\* went for.
C17_BackendKindChosenOnce ==
    (ret.op = "Start" /\ ret.tried # <<>>) => ret.tried[1] = kind[ret.s]

\* C18: the address of a Server stays the one NewServer fixed.
C18_ConfigImmutable ==
    \A s \in ServerIds : srv[s].alloc => srv[s].address = ConfiguredAddress

\* The backend the specification selects for a host.
SelectBackend(goos, wsl2Enabled, wsl2Available) ==
    IF goos = "darwin" THEN "vm"
    ELSE IF goos = "windows" /\ wsl2Enabled /\ wsl2Available THEN "wsl"
    ELSE "native"

C20_ExtractionIdempotent ==
    /\ (xlog.c # "none" /\ xlog.prev.c = xlog.c /\ ~xlog.prev.err) => ~xlog.wrote
    /\ (xlog.c # "none" /\ xlog.found = "exec") => (~xlog.wrote /\ ~xlog.err)

\* C21: when every extraction call made for a binary that is bundled has
\* returned, however the steps of the calls were interleaved, each of them has
\* returned success and the cache destination holds the bytes of the bundled
\* source.
C21_ConcurrentExtractionBenign ==
    \A i \in Callers :
        (/\ xcall[i].pc = "done" /\ env.bundled[xcall[i].c]
         /\ \A j \in Callers : xcall[j].c = xcall[i].c => xcall[j].pc = "done")
        => (/\ ~xcall[i].err
            /\ dest[xcall[i].c] = BundledContent)

C21_Witness ==
    \E i, j \in Callers :
        /\ i # j /\ xcall[i].c = xcall[j].c
        /\ xcall[i].pc = "done" /\ xcall[j].pc = "done"
        /\ xcall[i].raced /\ xcall[j].raced
        /\ dest[xcall[i].c] = BundledContent

\* C22: GetContainerdPath, GetRuncPath and GetHyperKitPath return the cache
\* path whenever the file is in the cache, the result of the PATH lookup only
\* when it is not, and the empty string only when it is in neither.
C22_PathPrefersCache ==
    qlog.fn \in {"GetContainerdPath", "GetRuncPath", "GetHyperKitPath"}
    => (/\ qlog.path = "cache" <=> qlog.inCache
        /\ qlog.path = "path" <=> (~qlog.inCache /\ qlog.onPath)
        /\ qlog.path = "" <=> (~qlog.inCache /\ ~qlog.onPath))

C22_Witness ==
    /\ qlog.fn = "GetRuncPath" /\ qlog.inCache /\ qlog.onPath
    /\ qlog.path = "cache"

\* The binary of component c can be had from nowhere: no bundled source, not
\* on the PATH, not in the cache.
Missing(c) == ~env.bundled[c] /\ ~env.onPath[c] /\ cache[c] = "absent"

\* C23 (as stated): a Start on a host where the bundled source of the engine
\* or of the low-level runtime is absent and the PATH lookup for it fails
\* returns the error that names the missing component, launches nothing and
\* leaves IsRunning() false.
C23_MissingBinaryFailsStart ==
    (ret.op = "Start" /\ \E c \in Components : ~env.bundled[c] /\ ~env.onPath[c])
    => (/\ ret.err \in {"noContainerd", "noRunc"}
        /\ ret.launched = {}
        /\ ~srv[ret.s].running)

\* C23 (amended): a Start that ends in the native engine part, on a host
\* where the engine or the low-level runtime is in no bundled source, not on
\* the PATH and not in the cache, returns the error that names a component
\* missing in that way, spawns no engine process and leaves IsRunning() false.
C23_NativeStartNeedsBinaries ==
    (ret.op = "Start" /\ ret.via = "native" /\ \E c \in Components : Missing(c))
    => (/\ ret.err \in {"noContainerd", "noRunc"}
        /\ ret.err = "noContainerd" => Missing("containerd")
        /\ ret.err = "noRunc" => Missing("runc")
        /\ "native" \notin ret.launched
        /\ srv[ret.s].cmdPid = 0
        /\ \A p \in Pids : procs[p] = "free"
        /\ ~srv[ret.s].running)

C23_Witness ==
    /\ ret.op = "Start" /\ ret.via = "native" /\ ret.err = "noRunc"
    /\ env.onPath["containerd"] /\ Missing("runc")

\* C24: on a host other than macOS where the engine ships as a bundled binary
\* (and is neither in the cache nor on the PATH before the first Start), a
\* Manager.Start in server or both mode does not fail for lack of an
\* installed engine.
C24_BundledEngineIsExtracted ==
    (/\ mret.op = "Start" /\ ServesEngine
     /\ env.goos # "darwin" /\ env.bundled["containerd"])
    => mret.err # "notInstalled"

\* C25: a WaitForSocket call on a filesystem socket whose path came to exist
\* before the timeout expired (or was there at the call) and has stayed since
\* returns success, no later than one poll interval after the path appeared.
C25_ReturnsOnceReachable ==
    (/\ wfs.pc = "returned" /\ ~HasPipePrefix(wfs.addr)
     /\ wfs.path /\ wfs.since < wfs.timeout)
    => (/\ wfs.result = "nil"
        /\ wfs.clock <= wfs.since + PollInterval)

\* C26: every WaitForSocket call returns, with nil or with the timeout
\* error, and has then taken no longer than the timeout plus one poll
\* interval, whatever the address and whatever the path does.
C26_WaitTerminates ==
    (wfs.pc = "waiting")
    ~> (/\ wfs.pc = "returned"
        /\ wfs.result \in {"nil", "timeout"}
        /\ wfs.clock <= wfs.timeout + PollInterval)

C26_Witness ==
    /\ wfs.pc = "returned" /\ ~HasPipePrefix(wfs.addr)
    /\ wfs.result = "timeout" /\ wfs.probes = MaxPolls /\ wfs.clock = wfs.timeout

\* C27: a WaitForSocket call on a named pipe makes no probe, returns when the
\* full timeout has passed, and returns no error, so that the caller goes on.
C27_PipeWaitLetsCallerProceed ==
    (wfs.pc = "returned" /\ HasPipePrefix(wfs.addr))
    => (/\ wfs.probes = 0
        /\ wfs.clock = wfs.timeout
        /\ wfs.result = "nil")

\* C28: on macOS IsLinuxKitVMRunning answers true exactly when the PID file
\* is there, holds a PID, and the zero-signal probe of that PID succeeds,
\* whatever else is the case on the host.
C28_VMRunningIffPidAlive ==
    (qlog.fn = "IsLinuxKitVMRunning" /\ env.goos = "darwin")
    => (qlog.running <=> (vmh.pidFile = "pid" /\ vmh.probe))

VMSignals == {"interrupt", "terminate", "kill"}

\* C29: a StopLinuxKitVM whose interrupt was delivered sends terminate only
\* after interrupt and kill only after terminate, and between two signals it
\* waits for the exit.
C29_VMStopEscalates ==
    (ret.op = "Stop" /\ ret.via = "vm" /\ "interruptVM" \in ret.sent)
    => (\A i \in 1..Len(ret.steps) :
          /\ ret.steps[i] = "terminate" => \E j \in 1..(i - 1) : ret.steps[j] = "interrupt"
          /\ ret.steps[i] = "kill" => \E j \in 1..(i - 1) : ret.steps[j] = "terminate"
          /\ (i > 1 /\ ret.steps[i] \in VMSignals) => ret.steps[i - 1] = "wait")

\* C30: a Stop that finds the hypervisor process exited, before the call or
\* between the liveness check of StopLinuxKitVM and its first signal, returns
\* no error and leaves the Server not running.
C30_VMStopAfterExit ==
    (ret.op = "Stop" /\ ret.via = "vm" /\ ret.sel \in {"down", "killErr"})
    => (/\ ret.err = "nil"
        /\ ~srv[ret.s].running
        /\ ~srv[ret.s].vmRunning)

IsPrefix(a, b) == Len(a) <= Len(b) /\ a = SubSeq(b, 1, Len(a))

Has(q, x) == \E k \in 1..Len(q) : q[k] = x

ProvisionSteps == <<"download", "import", "configure", "install">>

StartSteps == <<"launch", "mount", "engine">>

IsProvisionStep(x) == Has(ProvisionSteps, x)

IsStartStep(x) == Has(StartSteps, x)

\* C31: StartWSL2Environment launches the distribution, then bind-mounts the
\* shared directory, then starts the engine in the guest, in that order; when
\* the launch or the mount fails it does not start the engine and returns an
\* error; and a successful call ends with the engine start: no readiness
\* check of the engine's socket follows it.
C31_WSLStartOrder ==
    ret.op = "StartWSL2Environment" =>
        /\ IsPrefix(SelectSeq(ret.steps, IsStartStep), StartSteps)
        /\ ret.err \in {"launch", "mount"} =>
              /\ ~Has(ret.steps, "engine")
              /\ ret.steps[Len(ret.steps)] = ret.err
        /\ ret.err = "nil" =>
              /\ SelectSeq(ret.steps, IsStartStep) = StartSteps
              /\ ret.steps[Len(ret.steps)] = "engine"

C31_Witness ==
    /\ ret.op = "StartWSL2Environment"
    /\ ret.err = "mount"
    /\ ret.steps = <<"launch", "mount">>
    /\ distro = "running"

\* C32 as stated: provisioning steps run only when the distribution did not
\* exist, in the order download, import, configure, install, each only after
\* the one before it succeeded; and InstallWSL2Components called when the
\* distribution exists runs none of them and returns success.
C32_ProvisionOnlyWhenAbsent ==
    /\ ret.op \in {"InstallWSL2Components", "StartWSL2Environment"} =>
          /\ SelectSeq(ret.steps, IsProvisionStep) # <<>> => ret.before = "absent"
          /\ IsPrefix(SelectSeq(ret.steps, IsProvisionStep), ProvisionSteps)
          /\ IsProvisionStep(ret.err) => ret.steps[Len(ret.steps)] = ret.err
    /\ (ret.op = "InstallWSL2Components" /\ ret.before # "absent") =>
          ret.steps = <<>> /\ ret.err = "nil"

\* C32 amended: the same, but InstallWSL2Components called when the
\* distribution exists returns success only when its WSL2 availability probe
\* answers yes; when the probe answers no it returns an error (and still
\* runs no step).
C32_ProvisionOnlyWhenAbsentAndAvailable ==
    /\ ret.op \in {"InstallWSL2Components", "StartWSL2Environment"} =>
          /\ SelectSeq(ret.steps, IsProvisionStep) # <<>> => ret.before = "absent"
          /\ IsPrefix(SelectSeq(ret.steps, IsProvisionStep), ProvisionSteps)
          /\ IsProvisionStep(ret.err) => ret.steps[Len(ret.steps)] = ret.err
    /\ (ret.op = "InstallWSL2Components" /\ ret.before # "absent") =>
          /\ ret.steps = <<>>
          /\ ret.err \in {"nil", "probe"}

C32_Witness ==
    /\ ret.op = "InstallWSL2Components"
    /\ ret.before = "absent"
    /\ ret.err = "nil"
    /\ ret.steps = ProvisionSteps
    /\ guest.installed

\* C33: when Server.Start succeeds through WSL2, the engine was installed in
\* the guest before it was started there: no installation step follows the
\* engine start.
C33_InstalledBeforeEngineStart ==
    (ret.op = "Start" /\ ret.via = "wsl" /\ ret.err = "nil") =>
        \A i, j \in 1..Len(ret.steps) :
            (ret.steps[i] = "engine" /\ ret.steps[j] = "apt") => j < i

C35_HelperAliveAtDial ==
    [][(bridge = "none" /\ bridge' # "none") => bridge' = "alive"]_vars

\* C36: after a Server.Start that returned an error, whatever that Start
\* launched is terminated or is tracked by the Server, so that a Stop ends
\* it: a distribution it launched that is running is marked by wslRunning,
\* and an engine process that is alive is the Server's own running process.
C36_FailedStartLeavesNothingUntracked ==
    (ret.op = "Start" /\ ret.err # "nil") =>
        /\ ("wsl" \in ret.launched /\ distro = "running") => srv[ret.s].wslRunning
        /\ \A p \in Pids :
              procs[p] = "alive" => \E s \in ServerIds : srv[s].running /\ srv[s].cmdPid = p

\* C37: in "both" mode, when Manager.Start fails because the client could
\* not be created, the Manager holds no server and the backend of the server
\* that this Start had started, and has just stopped, is not running.
C37_ClientFailureStopsServer ==
    (/\ env.runAs = "both"
     /\ mret = [op |-> "Start", err |-> "newClient"]
     /\ ret.op = "Stop")
    => (/\ mgr.server = 0
        /\ ~BackendAliveOf(srv[ret.s], procs, distro, vm))

\* C38: after Manager.Stop has stopped its server and returned, with or
\* without an error, the backend of that server is shut down or the Manager
\* still holds the server.
C38_StopKeepsOrShutsDown ==
    (mret.op = "Stop" /\ ret.op = "Stop")
    => (~BackendAliveOf(srv[ret.s], procs, distro, vm) \/ mgr.server = ret.s)

HasUndefined == \E s \in Services : Has(up.deps[s], Ghost)

\* C39: Up starts a service only after the services it depends on; Up does
\* not succeed on a configuration with a dependency on an undefined service;
\* Up terminates on every configuration; and it starts the container of each
\* service exactly once: never twice, and once when it succeeds.
C39_UpInDependencyOrderOnce ==
    /\ \A s \in Services :
          up.containers[s] = "running" =>
              \A k \in 1..Len(up.deps[s]) :
                  up.deps[s][k] \in Services => up.containers[up.deps[s][k]] = "running"
    /\ (up.result = "ok" => ~HasUndefined)
    /\ up.result # "overflow"
    /\ \A s \in Services : up.calls[s] <= 1
    /\ (up.result = "ok" => \A s \in Services : up.calls[s] = 1)

====
